---- MODULE Spec2Model ----
(***************************************************************************)
(* Verification model of cieft: the GGUF container parser (reader.h,       *)
(* gguf.cpp), the tensor-view loader (gguf_loader.cpp) and the single      *)
(* layer step engine with its KV cache (layer0.cpp, kernels/rope.h).       *)
(*                                                                         *)
(* Unsigned 64-bit arithmetic is modelled at a reduced width of WordBits   *)
(* bits: every std::uint64_t / std::size_t value lives in 0..U64Max and    *)
(* every C++ addition wraps modulo U64Max + 1, exactly as the code's       *)
(* arithmetic wraps modulo 2^64.  Byte sizes of the file format (4-byte    *)
(* u32, 8-byte u64, 8-byte string length prefix) keep their real values.   *)
(* Floating-point vectors are modelled symbolically: an element is a       *)
(* tuple naming the computation that produced it.                          *)
(***************************************************************************)
EXTENDS Integers, Sequences, FiniteSets, TLC

\* ---------------------------------------------------------------- bounds
WordBits    == 12      \* width of the modelled std::uint64_t
MaxFileSize == 320     \* largest modelled file, in bytes
MaxEntries  == 2       \* metadata entries + tensor entries of a modelled file

U64Max  == 2^WordBits - 1             \* numeric_limits<uint64_t>::max(), scaled
U32Max  == 2^(WordBits \div 2) - 1    \* numeric_limits<uint32_t>::max(), scaled
SizeMax == U64Max                     \* numeric_limits<size_t>::max() (LP64)
Wrap64(n) == n % (U64Max + 1)

\* ------------------------------------------------- gguf.h: enum ValueType
Uint8   == 0
Int8    == 1
Uint16  == 2
Int16   == 3
Uint32  == 4
Int32   == 5
Float32 == 6
Bool    == 7
String  == 8
Array   == 9
Uint64  == 10
Int64   == 11
Float64 == 12
UnknownVT == 13   \* first u32 that names no ValueType

kDefaultAlignment == 32

VARIABLES
  fsize,                \* parse(data, size): the size argument
  pos,                  \* Reader::pos_
  pc,                   \* position of parse / the loader constructor
  err,                  \* kind of the exception thrown, "none" while running
  hdr,                  \* File::header
  metadata,             \* File::metadata
  tensors,              \* File::tensors
  kv_index_by_key,      \* File::kv_index_by_key
  tensor_index_by_name, \* File::tensor_index_by_name
  data_section_offset,  \* File::data_section_offset
  tensor_size_from_offsets, \* GGUFLoader::tensor_size_from_offsets_
  arr,                  \* observation: the array header read by the last read_value
  consumed              \* observation: keys and names in the order the reader met them

pvars == <<fsize, pos, pc, err, hdr, metadata, tensors, kv_index_by_key,
           tensor_index_by_name, data_section_offset, tensor_size_from_offsets,
           arr, consumed>>

VARIABLES
  lpc,        \* Layer0Context: "new", "ready" (constructed), "ctor_failed"
  lerr,       \* kind of the exception the last constructor or step call threw
  cfg_,       \* Layer0Context::cfg_
  rope_dim_,  \* RoPECache::rope_dim_ of Layer0Context::rope_
  cache_,     \* Layer0Context::cache_ (KVCacheLayer)
  x,          \* the caller's activation vector x_d_model
  calls       \* observation: one record per step call, in call order

lvars == <<lpc, lerr, cfg_, rope_dim_, cache_, x, calls>>

VARIABLES
  wres        \* observation: the last call made on a constructed GGUFLoader
              \* (or on a dequantizer) with its arguments and its outcome

wvars == <<wres>>
NoRes == [op |-> "none"]      \* no call observed

VARIABLES
  cli         \* observation: the last run of a command-line tool

cvars == <<cli>>

VARIABLES
  mf,         \* the MappedFile objects of a program, by storage slot
  ab,         \* the AlignedBuffer objects of a program, by storage slot
  os          \* the process's descriptors, mappings and allocations

rvars == <<mf, ab, os>>

\* ------------------------------------------------------------- reader.h
Res(ok, e, p) == [ok |-> ok, err |-> e, pos |-> p]

\* Reader::read<T>() with sizeof(T) = sz
ReaderRead(p, sz, size) ==
  IF Wrap64(p + sz) > size THEN Res(FALSE, "PastEOF", p)
  ELSE Res(TRUE, "none", Wrap64(p + sz))

\* Reader::skip(n) (Reader::read_bytes(dst, n) has the same check and advance)
ReaderSkip(p, n, size) ==
  IF Wrap64(p + n) > size THEN Res(FALSE, "PastEOF", p)
  ELSE Res(TRUE, "none", Wrap64(p + n))

\* Reader::read_string() on a string whose length prefix holds len
ReaderReadString(p, len, size) ==
  LET r == ReaderRead(p, 8, size)
  IN IF ~r.ok THEN r
     ELSE IF len > size - r.pos THEN Res(FALSE, "StringPastEOF", r.pos)
     ELSE Res(TRUE, "none", Wrap64(r.pos + len))

\* a plausible slip: rounds down to a multiple of alignment
align_down(v, alignment) ==
  IF alignment = 0 THEN v ELSE v - (v % alignment)

align_up(v, alignment) ==
  IF alignment = 0 THEN v
  ELSE LET r == v % alignment
       IN IF r = 0 THEN v ELSE Wrap64(v + (alignment - r))

\* ------------------------------------------------------------- gguf.cpp
\* a plausible slip: multiply without the overflow test
mul_overflow_u64_unchecked(a, b) == [ovf |-> FALSE, out |-> Wrap64(a * b)]

mul_overflow_u64(a, b) ==
  IF a = 0 \/ b = 0 THEN [ovf |-> FALSE, out |-> 0]
  ELSE IF a > U64Max \div b THEN [ovf |-> TRUE, out |-> 0]
  ELSE [ovf |-> FALSE, out |-> a * b]

add_overflow_u64(a, b) ==
  IF a > U64Max - b THEN [ovf |-> TRUE, out |-> 0]
  ELSE [ovf |-> FALSE, out |-> a + b]

skip_u64(p, nbytes, size) ==
  IF nbytes > SizeMax THEN Res(FALSE, "SkipTooLarge", p)
  ELSE ReaderSkip(p, nbytes, size)

\* sizeof of the fixed-size payload of a value type, 0 for the others
ElemSize(t) ==
  IF t \in {Uint8, Int8, Bool} THEN 1
  ELSE IF t \in {Uint16, Int16} THEN 2
  ELSE IF t \in {Uint32, Int32, Float32} THEN 4
  ELSE IF t \in {Uint64, Int64, Float64} THEN 8
  ELSE 0

\* the loop of read_string calls over an array of n strings, each of length slen
RECURSIVE ReadStrings(_, _, _, _)
ReadStrings(p, n, slen, size) ==
  IF n = 0 THEN Res(TRUE, "none", p)
  ELSE LET r == ReaderReadString(p, slen, size)
       IN IF r.ok THEN ReadStrings(r.pos, n - 1, slen, size) ELSE r

\* read_value, case Array: elem_type (u32) and n (u64)
ArrayHeader(p, size) ==
  LET r == ReaderRead(p, 4, size)
  IN IF r.ok THEN ReaderRead(r.pos, 8, size) ELSE r

\* read_value, case Array, after the header: p is the cursor behind the header
ArrayPayload(p, elem, n, slen, size) ==
  IF elem = String THEN ReadStrings(p, n, slen, size)
  ELSE IF ElemSize(elem) = 1 THEN skip_u64(p, n, size)
  ELSE IF ElemSize(elem) > 1 THEN
    LET m == mul_overflow_u64(n, ElemSize(elem))
    IN IF m.ovf THEN Res(FALSE, "ArithmeticOverflow", p)
       ELSE skip_u64(p, m.out, size)
  ELSE IF elem = Array THEN Res(FALSE, "UnsupportedArrayOfArray", p)
  ELSE Res(FALSE, "UnknownValueType", p)

\* read_value(r, t) on file content c = [type, num, elem, len]
read_value(p, c, size) ==
  IF ElemSize(c.type) > 0 THEN ReaderRead(p, ElemSize(c.type), size)
  ELSE IF c.type = String THEN ReaderReadString(p, c.len, size)
  ELSE IF c.type = Array THEN
    LET h == ArrayHeader(p, size)
    IN IF h.ok THEN ArrayPayload(h.pos, c.elem, c.len, 1, size) ELSE h
  ELSE Res(FALSE, "UnknownValueType", p)

\* the Value that read_value returns for content c
ValueOf(c) ==
  [type |-> c.type,
   payload |-> IF c.type = Array THEN [elem_type |-> c.elem, length |-> c.len]
               ELSE IF c.type = String THEN [str_len |-> c.len]
               ELSE c.num]

\* what the last read_value saw of an array, for the properties below
NoArr == [seen |-> FALSE, elem |-> 0, n |-> 0, at |-> 0, skipped |-> FALSE, bytes |-> 0]
ArrOf(p, c, size) ==
  IF c.type # Array THEN NoArr
  ELSE LET h == ArrayHeader(p, size)
       IN IF ~h.ok THEN NoArr
          ELSE LET es == ElemSize(c.elem)
                   m  == mul_overflow_u64(c.len, es)
                   sk == es = 1 \/ (es > 1 /\ ~m.ovf)
               IN [seen |-> TRUE, elem |-> c.elem, n |-> c.len, at |-> h.pos,
                   skipped |-> sk /\ (IF es = 1 THEN c.len ELSE m.out) <= SizeMax,
                   bytes |-> IF es = 1 THEN c.len ELSE IF sk THEN m.out ELSE 0]

ggml_type_traits(t) ==
  IF t = 0 THEN [has |-> TRUE, block_size |-> 1, type_size |-> 4]
  ELSE IF t = 1 THEN [has |-> TRUE, block_size |-> 1, type_size |-> 2]
  ELSE IF t = 12 THEN [has |-> TRUE, block_size |-> 256, type_size |-> 144]
  ELSE IF t = 14 THEN [has |-> TRUE, block_size |-> 256, type_size |-> 210]
  ELSE [has |-> FALSE, block_size |-> 0, type_size |-> 0]

None == [has |-> FALSE, val |-> 0]
Some(v) == [has |-> TRUE, val |-> v]

\* the loop nblocks *= dims[i] for i in i..Len(dims); None on overflow
RECURSIVE MulDims(_, _, _)
MulDims(nblocks, dims, i) ==
  IF i > Len(dims) THEN Some(nblocks)
  ELSE LET m == mul_overflow_u64(nblocks, dims[i])
       IN IF m.ovf THEN None ELSE MulDims(m.out, dims, i + 1)

tensor_nbytes(t) ==
  LET traits == ggml_type_traits(t.ggml_type)
  IN IF ~traits.has THEN None
     ELSE IF Len(t.dims) = 0 THEN Some(0)
     ELSE LET bs == traits.block_size
              q  == t.dims[1] \div bs
              blocks_dim0 ==
                IF bs = 1 THEN Some(t.dims[1])
                ELSE IF t.dims[1] % bs # 0
                     THEN (IF q = U64Max THEN None ELSE Some(q + 1))
                     ELSE Some(q)
          IN IF ~blocks_dim0.has THEN None
             ELSE LET nb == MulDims(blocks_dim0.val, t.dims, 2)
                  IN IF ~nb.has THEN None
                     ELSE LET m == mul_overflow_u64(nb.val, traits.type_size)
                          IN IF m.ovf THEN None ELSE Some(m.out)

\* a plausible slip: insert_or_assign, the last occurrence wins
EmplaceOverwrite(m, k, v) ==
  [a \in DOMAIN m \cup {k} |-> IF a = k THEN v ELSE m[a]]

\* a plausible slip: the slot is taken from a counter that is never advanced
EmplaceAtFront(m, k, v) ==
  IF k \in DOMAIN m THEN m
  ELSE [a \in DOMAIN m \cup {k} |-> 0]

\* std::unordered_map::emplace: inserts only when the key is absent
Emplace(m, k, v) ==
  IF k \in DOMAIN m THEN m
  ELSE [a \in DOMAIN m \cup {k} |-> IF a = k THEN v ELSE m[a]]

EmptyMap == [a \in {} |-> 0]

\* ------------------------------------------------ file contents enumerated
Content(t, num, elem, len) == [type |-> t, num |-> num, elem |-> elem, len |-> len]

KeyChoices ==
  { [name |-> "general.alignment", len |-> 17],
    [name |-> "k", len |-> 1],
    [name |-> "k", len |-> U64Max] }        \* a length prefix no file can honour

NameChoices == { [name |-> "a", len |-> 1], [name |-> "b", len |-> 1] }

ArrayElems == {Uint8, Uint16, Uint32, Uint64, String, Array, UnknownVT}
ArrayLens  == {0, 2, U64Max \div 2 + 1, U64Max}

ValueChoices ==
  { Content(Uint32, 0, 0, 0), Content(Uint32, 1, 0, 0), Content(Uint32, 8, 0, 0),
    Content(Int32, 16, 0, 0),
    Content(Uint64, 16, 0, 0), Content(Uint64, U64Max, 0, 0),
    Content(Uint8, 1, 0, 0), Content(UnknownVT, 0, 0, 0) }
  \cup { Content(String, 0, 0, l) : l \in {1, U64Max} }
  \cup { Content(Array, 0, e, n) : e \in ArrayElems, n \in ArrayLens }

ShapeChoices ==
  { <<>>, <<4>>, <<256>>, <<U64Max \div 2 + 1, 2>>, <<U64Max>> }
TypeChoices   == {0, 12, 2}
OffsetChoices == {0, 32, U64Max}
FileSizes     == {MaxFileSize \div 16, MaxFileSize \div 4, MaxFileSize}
CountChoices  ==
  { c \in (0..MaxEntries) \X (0..MaxEntries) : c[1] + c[2] <= MaxEntries }

\* ------------------------------------------------------------ gguf::parse
NoHeader == [tensor_count |-> 0, metadata_kv_count |-> 0]

\* an exception leaves parse: the File under construction is destroyed
Fail(e, p) ==
  /\ pc' = "failed"
  /\ err' = e
  /\ pos' = p
  /\ hdr' = NoHeader
  /\ metadata' = <<>>
  /\ tensors' = <<>>
  /\ kv_index_by_key' = EmptyMap
  /\ tensor_index_by_name' = EmptyMap
  /\ data_section_offset' = 0
  /\ tensor_size_from_offsets' = <<>>
  /\ consumed' = <<>>
  /\ UNCHANGED fsize

PInit ==
  /\ fsize \in FileSizes
  /\ pos = 0
  /\ pc = "header"
  /\ err = "none"
  /\ hdr = NoHeader
  /\ metadata = <<>>
  /\ tensors = <<>>
  /\ kv_index_by_key = EmptyMap
  /\ tensor_index_by_name = EmptyMap
  /\ data_section_offset = 0
  /\ tensor_size_from_offsets = <<>>
  /\ arr = NoArr
  /\ consumed = <<>>

\* magic, version, tensor_count, metadata_kv_count
ParseHeader ==
  /\ UNCHANGED <<lvars, wvars, cvars, rvars>>
  /\ pc = "header"
  /\ arr' = NoArr
  /\ \E magic_ok \in BOOLEAN, c \in CountChoices :
       LET r0 == ReaderSkip(pos, 4, fsize)                       \* read_bytes(magic, 4)
           r1 == IF r0.ok THEN ReaderRead(r0.pos, 4, fsize) ELSE r0
           r2 == IF r1.ok THEN ReaderRead(r1.pos, 8, fsize) ELSE r1
           r3 == IF r2.ok THEN ReaderRead(r2.pos, 8, fsize) ELSE r2
       IN IF ~r0.ok THEN Fail(r0.err, r0.pos)
          ELSE IF ~magic_ok THEN Fail("BadMagic", r0.pos)
          ELSE IF ~r3.ok THEN Fail(r3.err, r3.pos)
          ELSE /\ pc' = "body"
               /\ pos' = r3.pos
               /\ hdr' = [tensor_count |-> c[2], metadata_kv_count |-> c[1]]
               /\ UNCHANGED <<fsize, err, metadata, tensors, kv_index_by_key,
                              tensor_index_by_name, data_section_offset,
                              tensor_size_from_offsets, consumed>>

\* one iteration of the metadata loop
ParseKV ==
  /\ UNCHANGED <<lvars, wvars, cvars, rvars>>
  /\ pc = "body"
  /\ Len(metadata) < hdr.metadata_kv_count
  /\ \E k \in KeyChoices, c \in ValueChoices :
       LET r1 == ReaderReadString(pos, k.len, fsize)               \* kv.key
           r2 == IF r1.ok THEN ReaderRead(r1.pos, 4, fsize) ELSE r1  \* value type
           r3 == IF r2.ok THEN read_value(r2.pos, c, fsize) ELSE r2
       IN /\ arr' = IF r2.ok THEN ArrOf(r2.pos, c, fsize) ELSE NoArr
          /\ IF ~r3.ok THEN Fail(r3.err, r3.pos)
             ELSE /\ pos' = r3.pos
                  /\ kv_index_by_key' = Emplace(kv_index_by_key, k.name, Len(metadata))
                  /\ metadata' = Append(metadata, [key |-> k.name, value |-> ValueOf(c)])
                  /\ consumed' = Append(consumed, <<"kv", k.name>>)
                  /\ UNCHANGED <<fsize, pc, err, hdr, tensors, tensor_index_by_name,
                                 data_section_offset, tensor_size_from_offsets>>

\* the reads of dims[0..n_dims)
RECURSIVE ReadDims(_, _, _)
ReadDims(p, n, size) ==
  IF n = 0 THEN Res(TRUE, "none", p)
  ELSE LET r == ReaderRead(p, 8, size)
       IN IF r.ok THEN ReadDims(r.pos, n - 1, size) ELSE r

\* one iteration of the tensor directory loop
ParseTensor ==
  /\ UNCHANGED <<lvars, wvars, cvars, rvars>>
  /\ pc = "body"
  /\ Len(metadata) = hdr.metadata_kv_count
  /\ Len(tensors) < hdr.tensor_count
  /\ arr' = NoArr
  /\ \E nm \in NameChoices, dims \in ShapeChoices, ty \in TypeChoices, off \in OffsetChoices :
       LET r1 == ReaderReadString(pos, nm.len, fsize)                  \* ti.name
           r2 == IF r1.ok THEN ReaderRead(r1.pos, 4, fsize) ELSE r1      \* n_dims
           r3 == IF r2.ok THEN ReadDims(r2.pos, Len(dims), fsize) ELSE r2
           r4 == IF r3.ok THEN ReaderRead(r3.pos, 4, fsize) ELSE r3      \* ggml_type
           r5 == IF r4.ok THEN ReaderRead(r4.pos, 8, fsize) ELSE r4      \* offset
       IN IF ~r5.ok THEN Fail(r5.err, r5.pos)
          ELSE /\ pos' = r5.pos
               /\ tensor_index_by_name' = Emplace(tensor_index_by_name, nm.name, Len(tensors))
               /\ tensors' = Append(tensors, [name |-> nm.name, dims |-> dims,
                                              ggml_type |-> ty, offset |-> off])
               /\ consumed' = Append(consumed, <<"tensor", nm.name>>)
               /\ UNCHANGED <<fsize, pc, err, hdr, metadata, kv_index_by_key,
                              data_section_offset, tensor_size_from_offsets>>

\* the alignment parse uses: 32 unless general.alignment holds a u32, or a u64 that fits
Alignment(md, idx) ==
  IF "general.alignment" \in DOMAIN idx
  THEN LET v == md[idx["general.alignment"] + 1].value
       IN IF v.type = Uint32 THEN v.payload
          ELSE IF v.type = Uint64 /\ v.payload <= U32Max THEN v.payload
          ELSE kDefaultAlignment
  ELSE kDefaultAlignment

\* the range check of one tensor against the file: TRUE when parse throws on it
TensorOutOfBounds(t, dso, size) ==
  LET a == add_overflow_u64(dso, t.offset)
  IN IF a.ovf \/ a.out > size THEN TRUE
     ELSE LET nb == tensor_nbytes(t)
          IN IF nb.has
             THEN LET e == add_overflow_u64(a.out, nb.val)
                  IN e.ovf \/ e.out > size
             ELSE FALSE

\* alignment, data_section_offset and the sanity check of every tensor range
ParseFinish ==
  /\ UNCHANGED <<lvars, wvars, cvars, rvars>>
  /\ pc = "body"
  /\ Len(metadata) = hdr.metadata_kv_count
  /\ Len(tensors) = hdr.tensor_count
  /\ arr' = NoArr
  /\ LET dso == align_up(pos, Alignment(metadata, kv_index_by_key))
     IN IF dso > fsize THEN Fail("OutOfBounds", pos)
        ELSE IF \E i \in 1..Len(tensors) : TensorOutOfBounds(tensors[i], dso, fsize)
        THEN Fail("OutOfBounds", pos)
        ELSE /\ pc' = "parsed"
             /\ data_section_offset' = dso
             /\ UNCHANGED <<fsize, pos, err, hdr, metadata, tensors, kv_index_by_key,
                            tensor_index_by_name, tensor_size_from_offsets, consumed>>

\* ------------------------------------------------------- gguf_loader.cpp
checked_add_u64(a, b) ==
  IF a > U64Max - b THEN [ok |-> FALSE, out |-> 0] ELSE [ok |-> TRUE, out |-> a + b]

\* the results std::sort may leave in idx: every permutation of the tensor
\* indices that is ascending in offset (the order of equal offsets is unspecified)
SortedOrders(ts) ==
  { p \in [1..Len(ts) -> 1..Len(ts)] :
      /\ \A i, j \in 1..Len(ts) : i # j => p[i] # p[j]
      /\ \A i, j \in 1..Len(ts) : i < j => ts[p[i]].offset <= ts[p[j]].offset }

\* a plausible slip: every size runs to the end of the file
SizeFromOffsetsToEnd(ts, idx, i, dso, size) ==
  LET cur_abs == checked_add_u64(dso, ts[idx[i]].offset)
  IN IF ~cur_abs.ok THEN [ok |-> FALSE, err |-> "ArithmeticOverflow", size |-> 0]
     ELSE IF size < cur_abs.out
          THEN [ok |-> FALSE, err |-> "NonMonotonicOffsets", size |-> 0]
     ELSE [ok |-> TRUE, err |-> "none", size |-> size - cur_abs.out]

\* the loop over idx of the constructor: for the i-th tensor in offset order,
\* [ok, nonmono, size]
SizeFromOffsets(ts, idx, i, dso, size) ==
  LET cur_abs  == checked_add_u64(dso, ts[idx[i]].offset)
      next_abs == IF i + 1 <= Len(ts)
                  THEN checked_add_u64(dso, ts[idx[i + 1]].offset)
                  ELSE [ok |-> TRUE, out |-> size]
  IN IF ~cur_abs.ok \/ ~next_abs.ok THEN [ok |-> FALSE, err |-> "ArithmeticOverflow", size |-> 0]
     ELSE IF next_abs.out < cur_abs.out
          THEN [ok |-> FALSE, err |-> "NonMonotonicOffsets", size |-> 0]
     ELSE [ok |-> TRUE, err |-> "none", size |-> next_abs.out - cur_abs.out]

\* GGUFLoader::GGUFLoader after mapped_ and gguf_ are initialised
LoaderCtor ==
  /\ UNCHANGED <<lvars, wvars, cvars, rvars>>
  /\ pc = "parsed"
  /\ arr' = NoArr
  /\ \E idx \in SortedOrders(tensors) :
       LET n  == Len(tensors)
           rs == [i \in 1..n |-> SizeFromOffsets(tensors, idx, i, data_section_offset, fsize)]
           bad == { i \in 1..n : ~rs[i].ok }
           first == CHOOSE i \in bad : \A j \in bad : i <= j
           inv == [c \in 1..n |-> CHOOSE i \in 1..n : idx[i] = c]
       IN IF bad # {} THEN Fail(rs[first].err, pos)
          ELSE /\ pc' = "loaded"
               /\ tensor_size_from_offsets' = [c \in 1..n |-> rs[inv[c]].size]
               /\ UNCHANGED <<fsize, pos, err, hdr, metadata, tensors, kv_index_by_key,
                              tensor_index_by_name, data_section_offset, consumed>>

PNext == ParseHeader \/ ParseKV \/ ParseTensor \/ ParseFinish \/ LoaderCtor

\* =================================================== layer step engine
MaxSteps == 3      \* step calls modelled on one Layer0Context
MaxPos   == 3      \* largest pos a caller passes to step
kDefaultMaxSeq == 2048
kDefaultTheta  == 10000

\* GGUFLoader::config(): head_dim and kv_dim as derived from the metadata values
ConfigOf(n_layers, d_model, n_heads, n_kv_heads, ffn, ctx, rope_dim, theta) ==
  LET head_dim == IF n_heads # 0 /\ d_model % n_heads = 0 THEN d_model \div n_heads ELSE 0
  IN [n_layers |-> n_layers, d_model |-> d_model, n_heads |-> n_heads,
      n_kv_heads |-> n_kv_heads, head_dim |-> head_dim,
      kv_dim |-> n_kv_heads * head_dim,
      ffn_hidden_dim |-> ffn, context_length |-> ctx,
      rope_dim |-> rope_dim, rope_theta |-> theta]

NoCfg == ConfigOf(0, 0, 0, 0, 0, 0, 0, 0)

CfgChoices ==
  { ConfigOf(1, d, h, g, f, c, r, th) :
      d \in {0, 2, 4}, h \in {1, 2}, g \in {0, 1, 2}, f \in {0, 1},
      c \in {0, 1, MaxPos}, r \in {0, 2, 3, 4}, th \in {0, 1, -1} }
  \cup { ConfigOf(1, 8, 4, g, 1, c, r, 1) :
           g \in {1, 2, 3, 4}, c \in {1, MaxPos}, r \in {0, 2} }

\* ------------------------------------------------------- kernels/rope.h
\* RoPECache::reset(rope_dim, theta)
RopeReset(rope_dim, theta) ==
  IF rope_dim = 0 \/ rope_dim % 2 # 0 THEN [ok |-> FALSE, err |-> "InvalidDim", rope_dim |-> 0]
  ELSE IF ~(theta > 0) THEN [ok |-> FALSE, err |-> "InvalidTheta", rope_dim |-> 0]
  ELSE [ok |-> TRUE, err |-> "none", rope_dim |-> rope_dim]

\* RoPECache::apply_inplace(x, n_heads, head_dim, pos) on a vector vec
\* indexed from 0: the first rd components of every head are rotated
RopeApply(rd, vec, n_heads, head_dim, p) ==
  IF rd = 0 THEN [ok |-> FALSE, err |-> "InvalidDim", vec |-> vec]
  ELSE IF rd > head_dim THEN [ok |-> FALSE, err |-> "InvalidDim", vec |-> vec]
  ELSE IF rd % 2 # 0 THEN [ok |-> FALSE, err |-> "InvalidDim", vec |-> vec]
  ELSE [ok |-> TRUE, err |-> "none",
        vec |-> [i \in DOMAIN vec |->
                   IF i < n_heads * head_dim /\ i % head_dim < rd
                   THEN <<"rot", p, vec[i]>> ELSE vec[i]]]

\* ------------------------------------------------- layer0.cpp: KVCacheLayer
Zero == <<"0.0f">>
NoCache == [n_kv_heads |-> 0, max_seq |-> 0, head_dim |-> 0,
            size |-> 0, k |-> EmptyMap, v |-> EmptyMap]

\* size_t arithmetic on the cache: the dimensions are uint32_t and their
\* products wrap at 2^WordBits. The default max_seq is kept at its source
\* value, above the scaled uint32_t range; a product with it wraps in the
\* program only when n_kv_heads * head_dim reaches 2^53, which no modelled
\* dimension scales to, so it is left unwrapped
CacheIndex(max_seq, n) == IF max_seq > U32Max THEN n ELSE Wrap64(n)

\* KVCacheLayer::KVCacheLayer: k_ and v_ hold size zeros, size computed in
\* size_t; k and v list the
\* elements written since (every other element is still 0.0f)
KVCacheNew(n_kv_heads, max_seq, head_dim) ==
  IF n_kv_heads = 0 \/ max_seq = 0 \/ head_dim = 0
  THEN [ok |-> FALSE, cache |-> NoCache]
  ELSE [ok |-> TRUE,
        cache |-> [n_kv_heads |-> n_kv_heads, max_seq |-> max_seq, head_dim |-> head_dim,
                   size |-> CacheIndex(max_seq, n_kv_heads * max_seq * head_dim),
                   k |-> EmptyMap, v |-> EmptyMap]]

\* a plausible slip: pos not scaled by head_dim
SlotBaseUnscaledPos(c, kv_head, p) == (kv_head * c.max_seq) * c.head_dim + p

\* the index k_ptr / v_ptr compute for (kv_head, pos)
SlotBase(c, kv_head, p) ==
  CacheIndex(c.max_seq, (kv_head * c.max_seq + p) * c.head_dim)

\* element i of the slot (kv_head, p) of k_ and of v_
KAt(c, kv_head, p, i) ==
  LET a == SlotBase(c, kv_head, p) + i
  IN IF a \in DOMAIN c.k THEN c.k[a] ELSE Zero
VAt(c, kv_head, p, i) ==
  LET a == SlotBase(c, kv_head, p) + i
  IN IF a \in DOMAIN c.v THEN c.v[a] ELSE Zero

\* the memcpy targets of write(pos, ...): flat index -> index into the source vector
WriteTargets(c, p) ==
  { <<SlotBase(c, h, p) + i, h * c.head_dim + i>> :
      h \in 0..(c.n_kv_heads - 1), i \in 0..(c.head_dim - 1) }

Overlay(m, targets, src) ==
  LET dst == { t[1] : t \in targets }
  IN [a \in DOMAIN m \cup dst |->
        IF a \in dst THEN src[(CHOOSE t \in targets : t[1] = a)[2]] ELSE m[a]]

\* KVCacheLayer::write(pos, k_kv_dim, v_kv_dim)
KVCacheWrite(c, p, kvec, vvec) ==
  IF p >= c.max_seq THEN [ok |-> FALSE, err |-> "OutOfRange", cache |-> c]
  ELSE [ok |-> TRUE, err |-> "none",
        cache |-> [c EXCEPT !.k = Overlay(c.k, WriteTargets(c, p), kvec),
                            !.v = Overlay(c.v, WriteTargets(c, p), vvec)]]

\* ----------------------------------------------- layer0.cpp: Layer0Context
Tokens == {1, 2}

\* gather_column: the embedding column of token tok, d_model elements
Emb(tok, d_model) == [j \in 0..(d_model - 1) |-> [src |-> tok, gen |-> 0, j |-> j]]

\* the result of a matvec of the normalised x: element i of q_, k_ or v_
Proj(w, xv, n) == [i \in 0..(n - 1) |-> <<w, xv[0].src, xv[0].gen, i>>]

\* a plausible slip: kv heads interleaved over the query heads
KvHeadOfInterleaved(cfg, h) == h % cfg.n_kv_heads

\* step: group = n_heads / n_kv_heads; kv_head = h / group
KvHeadOf(cfg, h) == h \div (cfg.n_heads \div cfg.n_kv_heads)

\* the kv head each query head of the attention loop reads from
Route(cfg) == [h \in 0..(cfg.n_heads - 1) |-> KvHeadOf(cfg, h)]

\* the cache slots the attention loops of step read: (kv_head, t)
AttnReads(cfg, p) ==
  { <<KvHeadOf(cfg, h), t>> : h \in 0..(cfg.n_heads - 1), t \in 0..p }

\* x after both residual additions: every element is a new value
Residual(xv) == [j \in DOMAIN xv |-> [xv[j] EXCEPT !.gen = @ + 1]]

\* a plausible slip: the constructor without the n_heads % n_kv_heads test
CtxNewAnyGrouping(cfg) ==
  IF cfg.d_model = 0 \/ cfg.n_heads = 0 \/ cfg.head_dim = 0 \/ cfg.n_kv_heads = 0
     \/ cfg.kv_dim = 0 \/ cfg.ffn_hidden_dim = 0
  THEN [ok |-> FALSE, err |-> "InvalidDim", rope_dim |-> 0, cache |-> NoCache]
  ELSE
    LET r == RopeReset(IF cfg.rope_dim # 0 THEN cfg.rope_dim ELSE cfg.head_dim,
                       IF cfg.rope_theta # 0 THEN cfg.rope_theta ELSE kDefaultTheta)
        max_seq == IF cfg.context_length # 0 THEN cfg.context_length ELSE kDefaultMaxSeq
        c == KVCacheNew(cfg.n_kv_heads, max_seq, cfg.head_dim)
    IN IF ~r.ok THEN [ok |-> FALSE, err |-> r.err, rope_dim |-> 0, cache |-> NoCache]
       ELSE IF ~c.ok THEN [ok |-> FALSE, err |-> "InvalidDim", rope_dim |-> 0, cache |-> NoCache]
       ELSE [ok |-> TRUE, err |-> "none", rope_dim |-> r.rope_dim, cache |-> c.cache]

\* Layer0Context::Layer0Context(cfg): [ok, err, rope_dim, cache]
CtxNew(cfg) ==
  IF cfg.d_model = 0 \/ cfg.n_heads = 0 \/ cfg.head_dim = 0 \/ cfg.n_kv_heads = 0
     \/ cfg.kv_dim = 0 \/ cfg.ffn_hidden_dim = 0
  THEN [ok |-> FALSE, err |-> "InvalidDim", rope_dim |-> 0, cache |-> NoCache]
  ELSE IF cfg.n_heads % cfg.n_kv_heads # 0
  THEN [ok |-> FALSE, err |-> "InvalidDim", rope_dim |-> 0, cache |-> NoCache]
  ELSE
    LET r == RopeReset(IF cfg.rope_dim # 0 THEN cfg.rope_dim ELSE cfg.head_dim,
                       IF cfg.rope_theta # 0 THEN cfg.rope_theta ELSE kDefaultTheta)
        max_seq == IF cfg.context_length # 0 THEN cfg.context_length ELSE kDefaultMaxSeq
        c == KVCacheNew(cfg.n_kv_heads, max_seq, cfg.head_dim)
    IN IF ~r.ok THEN [ok |-> FALSE, err |-> r.err, rope_dim |-> 0, cache |-> NoCache]
       ELSE IF ~c.ok THEN [ok |-> FALSE, err |-> "InvalidDim", rope_dim |-> 0, cache |-> NoCache]
       ELSE [ok |-> TRUE, err |-> "none", rope_dim |-> r.rope_dim, cache |-> c.cache]

\* the lengths of the buffers the constructor allocates (resize, attn_probs_
\* of max_seq) and of each cache array
ScratchLen(cfg, c) ==
  [q |-> cfg.d_model, k |-> cfg.kv_dim, v |-> cfg.kv_dim, attn_out |-> cfg.d_model,
   attn_probs |-> c.max_seq, cache |-> c.size]

\* the indices step(pos) uses: the matvecs fill q_, k_, v_ whole; RoPE, the
\* cache write and the attention loops address them per head at h * head_dim;
\* probs[t] for t <= pos; kv_head = h / group (group 0: a division by zero,
\* no head at all, shown as -1); the cache at k_ptr/v_ptr(kv_head, t)
StepUse(cfg, c, p) ==
  LET group == cfg.n_heads \div cfg.n_kv_heads
      qh == { h * cfg.head_dim + i : h \in 0..(cfg.n_heads - 1), i \in 0..(cfg.head_dim - 1) }
      kh == { h * cfg.head_dim + i : h \in 0..(cfg.n_kv_heads - 1), i \in 0..(cfg.head_dim - 1) }
      kv == IF group = 0 THEN {-1} ELSE { h \div group : h \in 0..(cfg.n_heads - 1) }
  IN [q |-> 0..(cfg.d_model - 1) \cup qh,
      k |-> 0..(cfg.kv_dim - 1) \cup kh,
      v |-> 0..(cfg.kv_dim - 1) \cup kh,
      attn_out |-> 0..(cfg.d_model - 1) \cup qh,
      attn_probs |-> 0..p,
      kv_head |-> kv,
      cache |-> { SlotBase(c, g, t) + i :
                    g \in (kv \cup 0..(cfg.n_kv_heads - 1)) \ {-1}, t \in 0..p,
                    i \in 0..(cfg.head_dim - 1) }]

LInit ==
  /\ lpc = "new"
  /\ lerr = "none"
  /\ cfg_ = NoCfg
  /\ rope_dim_ = 0
  /\ cache_ = NoCache
  /\ x = EmptyMap
  /\ calls = <<>>

LayerCtor ==
  /\ UNCHANGED <<pvars, wvars, cvars, rvars>>
  /\ lpc = "new"
  /\ \E cfg \in CfgChoices :
       LET r == CtxNew(cfg)
       IN /\ lpc' = IF r.ok THEN "ready" ELSE "ctor_failed"
          /\ lerr' = r.err
          /\ cfg_' = IF r.ok THEN cfg ELSE NoCfg
          /\ rope_dim_' = r.rope_dim
          /\ cache_' = r.cache
          /\ UNCHANGED <<x, calls>>

\* the caller fills its activation buffer (layer0_step.cpp: gather_column)
Gather ==
  /\ UNCHANGED <<pvars, wvars, cvars, rvars>>
  /\ lpc = "ready"
  /\ Len(calls) < MaxSteps
  /\ \E tok \in Tokens : x' = Emb(tok, cfg_.d_model)
  /\ x' # x
  /\ UNCHANGED <<lpc, lerr, cfg_, rope_dim_, cache_, calls>>

\* a plausible slip: the cache is written before RoPE has validated its dims
StepResultWriteFirst(cfg, rd, c, xv, p) ==
  LET fail(e, c2) == [ok |-> FALSE, err |-> e, cache |-> c2, x |-> xv,
                      k |-> EmptyMap, v |-> EmptyMap, reads |-> {},
                      route |-> EmptyMap]
  IN IF p >= c.max_seq THEN fail("OutOfRange", c)
     ELSE
       LET k  == Proj("k", xv, cfg.kv_dim)
           v  == Proj("v", xv, cfg.kv_dim)
           w  == KVCacheWrite(c, p, k, v)
           rk == RopeApply(rd, k, cfg.n_kv_heads, cfg.head_dim, p)
       IN IF ~rk.ok THEN fail(rk.err, w.cache)
          ELSE [ok |-> TRUE, err |-> "none", cache |-> w.cache, x |-> Residual(xv),
                k |-> k, v |-> v, reads |-> AttnReads(cfg, p), route |-> Route(cfg)]

\* Layer0Context::step(layer, pos, x_d_model):
\* [ok, err, cache, x, k, v, reads, route] for a call at position p
StepResult(cfg, rd, c, xv, p) ==
  LET fail(e, c2) == [ok |-> FALSE, err |-> e, cache |-> c2, x |-> xv,
                      k |-> EmptyMap, v |-> EmptyMap, reads |-> {},
                      route |-> EmptyMap]
  IN IF p >= c.max_seq THEN fail("OutOfRange", c)
     ELSE
       LET q  == Proj("q", xv, cfg.d_model)
           k  == Proj("k", xv, cfg.kv_dim)
           v  == Proj("v", xv, cfg.kv_dim)
           rq == RopeApply(rd, q, cfg.n_heads, cfg.head_dim, p)
           rk == RopeApply(rd, k, cfg.n_kv_heads, cfg.head_dim, p)
       IN IF ~rq.ok THEN fail(rq.err, c)
          ELSE IF ~rk.ok THEN fail(rk.err, c)
          ELSE
            LET w == KVCacheWrite(c, p, rk.vec, v)
                reads == AttnReads(cfg, p)
            IN IF ~w.ok THEN fail(w.err, c)
               ELSE IF \E r \in reads : r[1] >= c.n_kv_heads \/ r[2] >= c.max_seq
               THEN fail("OutOfRange", w.cache)
               ELSE [ok |-> TRUE, err |-> "none", cache |-> w.cache, x |-> Residual(xv),
                     k |-> rk.vec, v |-> v, reads |-> reads, route |-> Route(cfg)]

\* what one successful step(pos) does to the cache and to the caller's x, in
\* statement order: an event is [op, h, g, t] (query head, kv head, position)
Ev(op, h, g, t) == [op |-> op, h |-> h, g |-> g, t |-> t]

\* a plausible slip: the attention loops run before cache_.write
StepTraceLateWrite(cfg, p) ==
  LET per == 2 * (p + 1)
      attn == [n \in 1..(cfg.n_heads * per) |->
                 Ev(IF (n - 1) % per <= p THEN "read_k" ELSE "read_v",
                    (n - 1) \div per, KvHeadOf(cfg, (n - 1) \div per),
                    ((n - 1) % per) % (p + 1))]
  IN <<Ev("read_x", -1, -1, -1)>> \o attn \o <<Ev("write", -1, -1, p)>>
     \o <<Ev("add_x", -1, -1, -1), Ev("read_x", -1, -1, -1), Ev("add_x", -1, -1, -1)>>

\* rmsnorm reads x; cache_.write(pos); for every head h the t loop over k_ptr
\* and then the t loop over v_ptr, both t = 0..pos; add_inplace on x;
\* rmsnorm reads x again; add_inplace on x
StepTrace(cfg, p) ==
  LET per == 2 * (p + 1)
      attn == [n \in 1..(cfg.n_heads * per) |->
                 Ev(IF (n - 1) % per <= p THEN "read_k" ELSE "read_v",
                    (n - 1) \div per, KvHeadOf(cfg, (n - 1) \div per),
                    ((n - 1) % per) % (p + 1))]
  IN <<Ev("read_x", -1, -1, -1), Ev("write", -1, -1, p)>> \o attn
     \o <<Ev("add_x", -1, -1, -1), Ev("read_x", -1, -1, -1), Ev("add_x", -1, -1, -1)>>

Step ==
  /\ UNCHANGED <<pvars, wvars, cvars, rvars>>
  /\ lpc = "ready"
  /\ x # EmptyMap
  /\ Len(calls) < MaxSteps
  /\ \E p \in 0..MaxPos :
       LET r == StepResult(cfg_, rope_dim_, cache_, x, p)
       IN /\ lerr' = r.err
          /\ cache_' = r.cache
          /\ x' = r.x
          /\ calls' = Append(calls, [pos |-> p, ok |-> r.ok, err |-> r.err,
                                     k |-> r.k, v |-> r.v, reads |-> r.reads,
                                     route |-> r.route,
                                     trace |-> IF r.ok THEN StepTrace(cfg_, p) ELSE <<>>])
          /\ UNCHANGED <<lpc, cfg_, rope_dim_>>

LNext == LayerCtor \/ Gather \/ Step

\* ============================================ loader accessors and weights
MaxLayer      == 2   \* largest layer index a caller requests
MaxRequest    == 2   \* longest layer_indices a caller passes
MaxFileLayers == 2   \* layers whose tensors a modelled file holds

I32Min == -((U32Max + 1) \div 2)     \* numeric_limits<int32_t>::min(), scaled
I32Max == (U32Max - 1) \div 2
I64Min == -((U64Max + 1) \div 2)     \* numeric_limits<int64_t>::min(), scaled
I64Max == (U64Max - 1) \div 2

\* static_cast<std::uint32_t>(n) and static_cast<std::uint64_t>(n)
Cast32(n) == n % (U32Max + 1)
Cast64(n) == n % (U64Max + 1)

\* a plausible slip: the casts without the range tests
to_u32_unchecked(v) ==
  IF v.type \in {Uint32, Int32, Uint64, Int64} THEN Some(Cast32(v.payload)) ELSE None

\* gguf_loader.cpp: to_u32(v); the payload alternative is the one read_value
\* stored for v.type
to_u32(v) ==
  IF v.type = Uint32 THEN Some(v.payload)
  ELSE IF v.type = Int32
       THEN (IF v.payload < 0 THEN None ELSE Some(Cast32(v.payload)))
  ELSE IF v.type = Uint64
       THEN (IF v.payload > U32Max THEN None ELSE Some(Cast32(v.payload)))
  ELSE IF v.type = Int64
       THEN (IF v.payload < 0 \/ v.payload > U32Max THEN None ELSE Some(Cast32(v.payload)))
  ELSE None

to_u64(v) ==
  IF v.type = Uint64 THEN Some(v.payload)
  ELSE IF v.type = Uint32 THEN Some(Cast64(v.payload))
  ELSE IF v.type = Int64
       THEN (IF v.payload < 0 THEN None ELSE Some(Cast64(v.payload)))
  ELSE IF v.type = Int32
       THEN (IF v.payload < 0 THEN None ELSE Some(Cast64(v.payload)))
  ELSE None

\* GGUFLoader::kv_u32(key), GGUFLoader::kv_u64(key)
kv_u32(key) ==
  IF key \notin DOMAIN kv_index_by_key THEN None
  ELSE to_u32(metadata[kv_index_by_key[key] + 1].value)

kv_u64(key) ==
  IF key \notin DOMAIN kv_index_by_key THEN None
  ELSE to_u64(metadata[kv_index_by_key[key] + 1].value)

value_or(o, dflt) == IF o.has THEN o.val ELSE dflt

NoView == [found |-> FALSE, ok |-> TRUE, err |-> "none", dims |-> <<>>, ggml_type |-> 0,
           nbytes |-> 0, file_offset |-> 0]

\* GGUFLoader::maybe_get_tensor(name): found = FALSE is std::nullopt
maybe_get_tensor(name) ==
  IF name \notin DOMAIN tensor_index_by_name THEN NoView
  ELSE LET i  == tensor_index_by_name[name] + 1
           ti == tensors[i]
           abs_off == checked_add_u64(data_section_offset, ti.offset)
           nbytes  == value_or(tensor_nbytes(ti), tensor_size_from_offsets[i])
       IN IF ~abs_off.ok
          THEN [NoView EXCEPT !.found = TRUE, !.ok = FALSE, !.err = "ArithmeticOverflow"]
          ELSE IF abs_off.out > fsize \/ Wrap64(abs_off.out + nbytes) > fsize
          THEN [NoView EXCEPT !.found = TRUE, !.ok = FALSE, !.err = "OutOfBounds"]
          ELSE [found |-> TRUE, ok |-> TRUE, err |-> "none", dims |-> ti.dims,
                ggml_type |-> ti.ggml_type, nbytes |-> nbytes, file_offset |-> abs_off.out]

\* GGUFLoader::get_tensor(name)
get_tensor(name) ==
  LET tv == maybe_get_tensor(name)
  IN IF tv.found THEN tv ELSE [tv EXCEPT !.ok = FALSE, !.err = "TensorNotFound"]

\* a caller of the constructed loader asks for a tensor by name
GetTensor ==
  /\ UNCHANGED <<pvars, lvars, cvars, rvars>>
  /\ pc = "loaded"
  /\ wres = NoRes
  /\ \E nm \in NameChoices :
       wres' = [op |-> "get_tensor", name |-> nm.name,
                maybe |-> maybe_get_tensor(nm.name), r |-> get_tensor(nm.name)]

TokenEmbd  == <<-1, "token_embd.weight">>
OutputNorm == <<-1, "output_norm.weight">>
Output     == <<-1, "output.weight">>
\* prefix + short with prefix = "blk." + std::to_string(i) + "."
Blk(i, short) == <<i, short>>

\* GGUFLoader::config(), vocab_size included: [ok, err, cfg]; it throws when
\* maybe_get_tensor does
LoaderConfig ==
  LET c == ConfigOf(value_or(kv_u32("llama.block_count"), 0),
                    value_or(kv_u32("llama.embedding_length"), 0),
                    value_or(kv_u32("llama.attention.head_count"), 0),
                    value_or(kv_u32("llama.attention.head_count_kv"), 0),
                    value_or(kv_u32("llama.feed_forward_length"), 0),
                    value_or(kv_u32("llama.context_length"), 0),
                    value_or(kv_u32("llama.rope.dimension_count"), 0),
                    0)
      t == maybe_get_tensor(TokenEmbd)
      vocab == IF t.found /\ t.ok /\ Len(t.dims) = 2
                  /\ t.dims[1] <= U32Max /\ t.dims[2] <= U32Max
               THEN Cast32(t.dims[2]) ELSE 0
  IN [ok  |-> ~(t.found /\ ~t.ok),
      err |-> IF t.found /\ ~t.ok THEN t.err ELSE "none",
      cfg |-> [c EXCEPT !.kv_dim = Cast32(@)] @@ [vocab_size |-> vocab]]

\* ------------------------------------------------------------ ggml_quants.h
QK_K == 256
SizeofBlockQ4K == 144      \* sizeof(block_q4_K)
SizeofBlockQ6K == 210      \* sizeof(block_q6_K)

\* k / QK_K of a std::int64_t k: the quotient truncates towards zero
DivTrunc(k, d) == IF k < 0 THEN -((-k) \div d) ELSE k \div d

\* dequantize_row_q4_k(x, y, k). asserts tells whether the build compiled
\* assert() in (no NDEBUG) or out (NDEBUG): the only test of k is an assert.
\* [outcome, blocks decoded, floats written to y, bytes read from x]
dequantize_row_q4_k(k, asserts) ==
  IF asserts /\ k % QK_K # 0
  THEN [outcome |-> "abort", blocks |-> 0, wrote |-> 0, src_read |-> 0]
  ELSE LET nb == DivTrunc(k, QK_K)
           n  == IF nb > 0 THEN nb ELSE 0
       IN [outcome |-> "returned", blocks |-> n, wrote |-> n * QK_K,
           src_read |-> n * SizeofBlockQ4K]

\* dequantize_row_q6_k(x, y, k)
dequantize_row_q6_k(k, asserts) ==
  IF asserts /\ k % QK_K # 0
  THEN [outcome |-> "abort", blocks |-> 0, wrote |-> 0, src_read |-> 0]
  ELSE LET nb == DivTrunc(k, QK_K)
           n  == IF nb > 0 THEN nb ELSE 0
       IN [outcome |-> "returned", blocks |-> n, wrote |-> n * QK_K,
           src_read |-> n * SizeofBlockQ6K]

\* ------------------------------------------------------------- weights.cpp
checked_mul_u64(a, b) ==
  IF a = 0 \/ b = 0 THEN [ok |-> TRUE, out |-> 0]
  ELSE IF a > U64Max \div b THEN [ok |-> FALSE, out |-> 0]
  ELSE [ok |-> TRUE, out |-> a * b]

\* the loop n = checked_mul_u64(n, dims[i]) over dims[i..]
RECURSIVE FoldMul(_, _, _)
FoldMul(n, dims, i) ==
  IF i > Len(dims) THEN [ok |-> TRUE, out |-> n]
  ELSE LET m == checked_mul_u64(n, dims[i])
       IN IF m.ok THEN FoldMul(m.out, dims, i + 1) ELSE m

numel_u64(dims) == FoldMul(1, dims, 1)

\* product_tail_u64(dims, start), start counted from 0 as in the code
product_tail_u64(dims, start) == FoldMul(1, dims, start + 1)

\* allocate_f32(dims, alignment) with a valid alignment and memory available:
\* AlignedBuffer::allocate rejects a request of 0 bytes
allocate_f32(dims) ==
  LET n == numel_u64(dims)
      bytes == IF n.ok THEN checked_mul_u64(n.out, 4) ELSE n
  IN IF ~n.ok \/ ~bytes.ok THEN [ok |-> FALSE, err |-> "ArithmeticOverflow", numel |-> 0]
     ELSE IF bytes.out > SizeMax THEN [ok |-> FALSE, err |-> "TooLarge", numel |-> 0]
     ELSE IF bytes.out = 0 THEN [ok |-> FALSE, err |-> "AllocFailed", numel |-> 0]
     ELSE [ok |-> TRUE, err |-> "none", numel |-> n.out]

\* a plausible slip: the type dispatch falls back to a raw F32 copy
load_tensor_as_f32_any_type(name) ==
  LET t == get_tensor(name)
      out == allocate_f32(t.dims)
  IN [ok |-> t.ok /\ out.ok, err |-> IF t.ok /\ out.ok THEN "none" ELSE "TensorNotFound",
      dims |-> t.dims, numel |-> out.numel, src_read |-> out.numel * 4,
      wrote |-> out.numel, view |-> t]

\* load_tensor_as_f32 throws e
LoadBad(t, e) ==
  [ok |-> FALSE, err |-> e, dims |-> <<>>, numel |-> 0, src_read |-> 0, wrote |-> 0,
   view |-> t]

\* load_tensor_as_f32 returns out, having read n bytes of the view
LoadGood(t, numel, n, wrote) ==
  [ok |-> TRUE, err |-> "none", dims |-> t.dims, numel |-> numel, src_read |-> n,
   wrote |-> wrote, view |-> t]

\* the F32 and F16 branches, esz = sizeof(element)
LoadFlat(t, numel, esz) ==
  LET expected == checked_mul_u64(numel, esz)
  IN IF ~expected.ok THEN LoadBad(t, "ArithmeticOverflow")
     ELSE IF t.nbytes < expected.out THEN LoadBad(t, "Truncated")
     ELSE LoadGood(t, numel, expected.out, numel)

\* the Q4_K and Q6_K branches, bsz = sizeof(block); the row length handed to
\* the dequantizer is a multiple of QK_K, so its assert never decides
LoadQuant(t, numel, bsz) ==
  LET row_len == t.dims[1]
      n_rows  == product_tail_u64(t.dims, 1)
      row_bytes == checked_mul_u64(row_len \div QK_K, bsz)
      expected  == IF n_rows.ok /\ row_bytes.ok
                   THEN checked_mul_u64(row_bytes.out, n_rows.out)
                   ELSE [ok |-> FALSE, out |-> 0]
      row == IF bsz = SizeofBlockQ4K THEN dequantize_row_q4_k(row_len, FALSE)
             ELSE dequantize_row_q6_k(row_len, FALSE)
  IN IF row_len % QK_K # 0 THEN LoadBad(t, "InvalidShape")
     ELSE IF ~expected.ok THEN LoadBad(t, "ArithmeticOverflow")
     ELSE IF t.nbytes < expected.out THEN LoadBad(t, "Truncated")
     ELSE LoadGood(t, numel, n_rows.out * row.src_read, n_rows.out * row.wrote)

\* the dispatch of load_tensor_as_f32 on the view t
LoadView(t) ==
  IF ~t.ok THEN LoadBad(t, t.err)
  ELSE IF Len(t.dims) = 0 THEN LoadBad(t, "NoDims")
  ELSE LET out == allocate_f32(t.dims)
       IN IF ~out.ok THEN LoadBad(t, out.err)
          ELSE IF t.ggml_type = 0 THEN LoadFlat(t, out.numel, 4)
          ELSE IF t.ggml_type = 1 THEN LoadFlat(t, out.numel, 2)
          ELSE IF t.ggml_type = 12 THEN LoadQuant(t, out.numel, SizeofBlockQ4K)
          ELSE IF t.ggml_type = 14 THEN LoadQuant(t, out.numel, SizeofBlockQ6K)
          ELSE LoadBad(t, "UnsupportedType")

\* load_tensor_as_f32(loader, name, alignment):
\* [ok, err, dims, numel, src_read (bytes read from the view), wrote, view]
load_tensor_as_f32(name) ==
  CHOOSE r \in { LoadView(t) : t \in {get_tensor(name)} } : TRUE

LayerTensors ==
  << "attn_norm.weight", "attn_q.weight", "attn_k.weight", "attn_v.weight",
     "attn_output.weight", "ffn_norm.weight", "ffn_gate.weight", "ffn_up.weight",
     "ffn_down.weight" >>

\* the shapes load_weights passes to expect_dims for the tensors of a layer
ExpectedDims(cfg, short) ==
  IF short \in {"attn_norm.weight", "ffn_norm.weight"} THEN <<cfg.d_model>>
  ELSE IF short \in {"attn_q.weight", "attn_output.weight"} THEN <<cfg.d_model, cfg.d_model>>
  ELSE IF short \in {"attn_k.weight", "attn_v.weight"} THEN <<cfg.d_model, cfg.kv_dim>>
  ELSE IF short \in {"ffn_gate.weight", "ffn_up.weight"} THEN <<cfg.d_model, cfg.ffn_hidden_dim>>
  ELSE <<cfg.ffn_hidden_dim, cfg.d_model>>

\* a plausible slip: only the rank is compared
expect_dims_rank_only(name, expected) ==
  LET t == get_tensor(name)
  IN IF ~t.ok THEN t.err
     ELSE IF Len(t.dims) # Len(expected) THEN "UnexpectedShape" ELSE "none"

\* expect_dims(loader.get_tensor(name), expected): the error thrown, "none" if none
expect_dims(name, expected) ==
  LET t == get_tensor(name)
  IN IF ~t.ok THEN t.err
     ELSE IF t.dims # expected THEN "UnexpectedShape" ELSE "none"

\* a plausible slip: an off-by-one in the layer index test
LayerInRangeInclusive(cfg, i) == i <= cfg.n_layers

\* load_weights: the test i >= w.cfg.n_layers, negated
LayerInRange(cfg, i) == i < cfg.n_layers

\* one statement of load_weights that can throw
Stmt(kind, name, dims) == [kind |-> kind, name |-> name, dims |-> dims]

\* the statements from "// Globals" to the loop, in program order; cfg0 is the
\* config before vocab_size is recovered, cfg the one after
GlobalStmts(cfg0, cfg, load_lm_head) ==
  << Stmt("load", TokenEmbd, <<>>),
     Stmt("is2d", TokenEmbd, <<>>),
     Stmt("vocab", TokenEmbd, <<cfg0.vocab_size>>),
     Stmt("expect", TokenEmbd, <<cfg.d_model, cfg.vocab_size>>) >>
  \o (IF load_lm_head
      THEN << Stmt("load", OutputNorm, <<>>),
              Stmt("expect", OutputNorm, <<cfg.d_model>>),
              Stmt("load", Output, <<>>),
              Stmt("expect", Output, <<cfg.d_model, cfg.vocab_size>>) >>
      ELSE <<>>)

\* the statements of one iteration of the loop over layer_indices: the index
\* test, the nine loads, the nine shape checks
LayerStmts(cfg, i) ==
  << Stmt("range", Blk(i, ""), <<>>) >>
  \o [k \in 1..Len(LayerTensors) |-> Stmt("load", Blk(i, LayerTensors[k]), <<>>)]
  \o [k \in 1..Len(LayerTensors) |->
        Stmt("expect", Blk(i, LayerTensors[k]), ExpectedDims(cfg, LayerTensors[k]))]

\* the statements of the whole loop for layer_indices[k..]
RECURSIVE LoopStmts(_, _, _)
LoopStmts(cfg, idxs, k) ==
  IF k > Len(idxs) THEN <<>>
  ELSE LayerStmts(cfg, idxs[k]) \o LoopStmts(cfg, idxs, k + 1)

\* the error statement s throws, "none" when it completes
RunStmt(cfg, s) ==
  IF s.kind = "load" THEN load_tensor_as_f32(s.name).err
  ELSE IF s.kind = "is2d"          \* "token_embd.weight is not 2D"
  THEN (IF Len(get_tensor(s.name).dims) # 2 THEN "UnexpectedShape" ELSE "none")
  ELSE IF s.kind = "vocab"
  THEN (IF s.dims[1] = 0 /\ get_tensor(s.name).dims[2] > U32Max
        THEN "VocabTooLarge" ELSE "none")
  ELSE IF s.kind = "expect" THEN expect_dims(s.name, s.dims)
  ELSE IF LayerInRange(cfg, s.name[1]) THEN "none" ELSE "OutOfRange"

\* the statements run in order until one throws: its position, 0 when none does
RECURSIVE FirstFailure(_, _, _)
FirstFailure(cfg, stmts, k) ==
  IF k > Len(stmts) THEN 0
  ELSE IF RunStmt(cfg, stmts[k]) # "none" THEN k
  ELSE FirstFailure(cfg, stmts, k + 1)

\* load_weights throws e: the Weights under construction are destroyed
WeightsBad(cfg, e, started) ==
  [ok |-> FALSE, err |-> e, cfg |-> cfg, token_embd |-> <<>>, layers |-> <<>>,
   started |-> started]

\* w.cfg once vocab_size is recovered from token_embd.weight
WithVocab(cfg0) ==
  IF cfg0.vocab_size # 0 THEN cfg0
  ELSE LET t == get_tensor(TokenEmbd)
       IN [cfg0 EXCEPT !.vocab_size =
             IF t.ok /\ Len(t.dims) = 2 /\ t.dims[2] <= U32Max
             THEN Cast32(t.dims[2]) ELSE 0]

\* the outcome of load_weights given the position f of the failing statement;
\* started lists the layers for which a tensor load was attempted
WeightsResult(cfg, layer_indices, stmts, ng, f) ==
  LET per == 1 + 2 * Len(LayerTensors)
      nstarted == IF f = 0 THEN Len(layer_indices)
                  ELSE IF f <= ng THEN 0
                  ELSE (f - ng - 1) \div per + (IF (f - ng - 1) % per = 0 THEN 0 ELSE 1)
  IN IF f # 0
     THEN WeightsBad(cfg, RunStmt(cfg, stmts[f]), SubSeq(layer_indices, 1, nstarted))
     ELSE [ok |-> TRUE, err |-> "none", cfg |-> cfg,
           token_embd |-> get_tensor(TokenEmbd).dims,
           layers |-> [k \in 1..Len(layer_indices) |->
                         [index |-> layer_indices[k],
                          dims |-> [s \in {LayerTensors[j] : j \in 1..Len(LayerTensors)} |->
                                      get_tensor(Blk(layer_indices[k], s)).dims]]],
           started |-> layer_indices]

\* load_weights after the metadata checks, on the config c0 that passed them
LoadGlobalsAndLayers(c0, layer_indices, load_lm_head) ==
  CHOOSE r \in
    { WeightsResult(cfg, layer_indices, stmts, ng, FirstFailure(cfg, stmts, 1)) :
        cfg \in {WithVocab(c0)},
        ng \in {Len(GlobalStmts(c0, c0, load_lm_head))},
        stmts \in {GlobalStmts(c0, WithVocab(c0), load_lm_head)
                   \o LoopStmts(WithVocab(c0), layer_indices, 1)} } : TRUE

\* load_weights on the value c of loader.config()
LoadWeightsOn(c, layer_indices, load_lm_head) ==
  IF ~c.ok THEN WeightsBad(c.cfg, c.err, <<>>)
  ELSE IF c.cfg.n_layers = 0 \/ c.cfg.d_model = 0 \/ c.cfg.n_heads = 0
  THEN WeightsBad(c.cfg, "MissingMetadata", <<>>)
  ELSE IF c.cfg.head_dim = 0 \/ c.cfg.kv_dim = 0
  THEN WeightsBad(c.cfg, "MissingMetadata", <<>>)
  ELSE IF c.cfg.ffn_hidden_dim = 0 THEN WeightsBad(c.cfg, "MissingMetadata", <<>>)
  ELSE LoadGlobalsAndLayers(c.cfg, layer_indices, load_lm_head)

\* load_weights(loader, layer_indices, load_lm_head, alignment):
\* [ok, err, cfg, token_embd, layers, started]
load_weights(layer_indices, load_lm_head) ==
  CHOOSE r \in { LoadWeightsOn(c, layer_indices, load_lm_head) : c \in {LoaderConfig} } : TRUE

\* ------------------------------------------ loaders enumerated for the calls
Val(t, n) == ValueOf(Content(t, n, 0, 0))
Absent == Val(UnknownVT, 0)          \* the key is not in the file

ConfigKeys ==
  << "llama.block_count", "llama.embedding_length", "llama.attention.head_count",
     "llama.attention.head_count_kv", "llama.feed_forward_length" >>

\* the metadata table holding vals[i] under ConfigKeys[i]
MetaOf(vals) ==
  SelectSeq([i \in 1..Len(ConfigKeys) |-> [key |-> ConfigKeys[i], value |-> vals[i]]],
            LAMBDA e : e.value.type # UnknownVT)

\* values of every payload kind for llama.block_count
BlockCountValues ==
  { Val(Uint32, n) : n \in {0, 1, U32Max} }
  \cup { Val(Int32, n) : n \in {-1, 1, I32Min, I32Max} }
  \cup { Val(Uint64, n) : n \in {2, U32Max, U32Max + 1, U64Max} }
  \cup { Val(Int64, n) : n \in {-1, 1, U32Max, U32Max + 1, I64Min, I64Max} }
  \cup { Val(t, 1) : t \in {Uint8, Int8, Uint16, Int16, Float32, Float64, Bool} }
  \cup { ValueOf(Content(String, 0, 0, 1)), ValueOf(Content(Array, 0, Uint32, 2)), Absent }

MetaChoices ==
  { <<bc, Val(Uint32, 4), Val(Uint32, 2), Val(Uint32, 1), Val(Uint32, 2)>> :
      bc \in BlockCountValues }
  \cup { <<Val(Uint32, l), Val(Uint32, d), Val(Uint32, h), Val(Uint32, g), Val(Uint32, f)>> :
           l \in 0..(MaxFileLayers + 1), d \in {0, 2, 4}, h \in 0..3, g \in 0..3,
           f \in {0, 2} }

\* metadata under which load_weights reaches the tensors
GoodMetas ==
  { <<Val(Uint32, l), Val(Uint32, 4), Val(Uint32, 2), Val(Uint32, g), Val(Uint32, 2)>> :
      l \in {MaxFileLayers}, g \in {1, 3} }

\* the tensor directory of a well-formed file for the dimensions in vals
CanonEntries(vals) ==
  LET cfg == ConfigOf(0, value_or(to_u32(vals[2]), 0), value_or(to_u32(vals[3]), 0),
                      value_or(to_u32(vals[4]), 0), value_or(to_u32(vals[5]), 0), 0, 0, 0)
  IN << [name |-> TokenEmbd, dims |-> <<cfg.d_model, 3>>, ggml_type |-> 0],
        [name |-> OutputNorm, dims |-> <<cfg.d_model>>, ggml_type |-> 0],
        [name |-> Output, dims |-> <<cfg.d_model, 3>>, ggml_type |-> 0] >>
     \o [j \in 1..(Len(LayerTensors) * MaxFileLayers) |->
           LET i == (j - 1) \div Len(LayerTensors)
               s == LayerTensors[((j - 1) % Len(LayerTensors)) + 1]
           IN [name |-> Blk(i, s), dims |-> ExpectedDims(cfg, s), ggml_type |-> 0]]

FaultKinds ==
  { "missing", "nodims", "extra_dim", "grow_dim0", "f16", "unsupported", "q4k_same",
    "q4k_256", "q6k_256x2", "huge", "nodims_unsupported" }

FaultTargets ==
  { TokenEmbd, Output, Blk(0, "attn_norm.weight"), Blk(0, "attn_k.weight"),
    Blk(0, "ffn_down.weight"), Blk(MaxFileLayers - 1, "attn_q.weight") }

NoFault == [target |-> TokenEmbd, kind |-> "none"]

\* the directory entry e as the fault leaves it (ggml_type -1: entry removed)
Faulty(e, kind) ==
  IF kind = "missing" THEN [e EXCEPT !.ggml_type = -1]
  ELSE IF kind = "nodims" THEN [e EXCEPT !.dims = <<>>]
  ELSE IF kind = "extra_dim" THEN [e EXCEPT !.dims = Append(@, 1)]
  ELSE IF kind = "grow_dim0" THEN [e EXCEPT !.dims[1] = @ + 1]
  ELSE IF kind = "f16" THEN [e EXCEPT !.ggml_type = 1]
  ELSE IF kind = "unsupported" THEN [e EXCEPT !.ggml_type = 2]
  ELSE IF kind = "q4k_same" THEN [e EXCEPT !.ggml_type = 12]
  ELSE IF kind = "q4k_256" THEN [e EXCEPT !.dims = <<QK_K>>, !.ggml_type = 12]
  ELSE IF kind = "q6k_256x2" THEN [e EXCEPT !.dims = <<QK_K, 2>>, !.ggml_type = 14]
  ELSE IF kind = "huge" THEN [e EXCEPT !.dims = <<U64Max>>]
  ELSE IF kind = "nodims_unsupported" THEN [e EXCEPT !.dims = <<>>, !.ggml_type = 2]
  ELSE e

EntriesOf(vals, fault) ==
  LET es == CanonEntries(vals)
  IN SelectSeq([j \in 1..Len(es) |->
                  IF es[j].name = fault.target THEN Faulty(es[j], fault.kind) ELSE es[j]],
               LAMBDA e : e.ggml_type # -1)

\* the entries laid out back to back in the data section: a tensor without a
\* computable byte count takes 8 bytes
RECURSIVE Layout(_, _, _)
Layout(es, i, off) ==
  IF i > Len(es) THEN <<>>
  ELSE LET nb == tensor_nbytes(es[i])
       IN <<[name |-> es[i].name, dims |-> es[i].dims, ggml_type |-> es[i].ggml_type,
             offset |-> off]>>
          \o Layout(es, i + 1, off + (IF nb.has THEN nb.val ELSE 8))

LoaderFiles ==
  { [vals |-> m, fault |-> NoFault] : m \in MetaChoices }
  \cup { [vals |-> m, fault |-> [target |-> t, kind |-> k]] :
           m \in GoodMetas, t \in FaultTargets, k \in FaultKinds }

\* first-occurrence index of a table, as parse builds it with emplace
FirstIndex(keys) ==
  [k \in { keys[i] : i \in 1..Len(keys) } |->
     (CHOOSE i \in 1..Len(keys) : keys[i] = k /\ \A j \in 1..(i - 1) : keys[j] # k) - 1]

\* a GGUFLoader constructed over one of the files: parse and the constructor
\* have run (offsets ascend in file order, which is one result of the sort)
WInit ==
  \E f \in LoaderFiles :
    LET md == MetaOf(f.vals)
        ts == Layout(EntriesOf(f.vals, f.fault), 1, 0)
        dso == 2 * kDefaultAlignment
        last == ts[Len(ts)]
        nbl == tensor_nbytes(last)
        size == dso + last.offset + (IF nbl.has THEN nbl.val ELSE 8)
    IN /\ fsize = size
       /\ pos = 0
       /\ pc = "loaded"
       /\ err = "none"
       /\ hdr = [tensor_count |-> Len(ts), metadata_kv_count |-> Len(md)]
       /\ metadata = md
       /\ tensors = ts
       /\ kv_index_by_key = FirstIndex([i \in 1..Len(md) |-> md[i].key])
       /\ tensor_index_by_name = FirstIndex([i \in 1..Len(ts) |-> ts[i].name])
       /\ data_section_offset = dso
       /\ tensor_size_from_offsets =
            [i \in 1..Len(ts) |->
               (IF i < Len(ts) THEN ts[i + 1].offset ELSE size - dso) - ts[i].offset]
       /\ arr = NoArr
       /\ consumed = <<>>

Requests == UNION { [1..n -> 0..MaxLayer] : n \in 0..MaxRequest }
LookupKeys == { ConfigKeys[i] : i \in 1..Len(ConfigKeys) } \cup { "llama.context_length" }
LoadNames ==
  { TokenEmbd, OutputNorm, Output }
  \cup { Blk(i, LayerTensors[k]) : i \in 0..MaxFileLayers, k \in {1, 2, 3, 9} }
DequantLens == { -1, 0, 1, QK_K - 1, QK_K, QK_K + 44, 2 * QK_K }

\* the caller holds no result of a call
Dropped == [op |-> "dropped"]
WReady == wres.op \in {"none", "dropped"}

\* a caller reads a metadata key through kv_u32 and kv_u64
KvLookup ==
  /\ UNCHANGED <<pvars, lvars, cvars, rvars>>
  /\ WReady
  /\ \E key \in LookupKeys :
       wres' = [op |-> "kv", key |-> key, u32 |-> kv_u32(key), u64 |-> kv_u64(key)]

\* a caller loads one tensor
LoadTensor ==
  /\ UNCHANGED <<pvars, lvars, cvars, rvars>>
  /\ WReady
  /\ \E name \in LoadNames :
       wres' = [op |-> "load_tensor", name |-> name, r |-> load_tensor_as_f32(name)]

\* a caller loads a weight set
LoadWeights ==
  /\ UNCHANGED <<pvars, lvars, cvars, rvars>>
  /\ WReady
  /\ \E idxs \in Requests, lm \in BOOLEAN :
       wres' = [op |-> "load_weights", layer_indices |-> idxs, load_lm_head |-> lm,
                r |-> load_weights(idxs, lm)]

\* a caller dequantizes one row of k elements
DequantRow ==
  /\ UNCHANGED <<pvars, lvars, cvars, rvars>>
  /\ WReady
  /\ \E ty \in {12, 14}, k \in DequantLens, asserts \in BOOLEAN :
       wres' = [op |-> "dequant", type |-> ty, k |-> k, asserts |-> asserts,
                r |-> IF ty = 12 THEN dequantize_row_q4_k(k, asserts)
                      ELSE dequantize_row_q6_k(k, asserts)]

\* no step ran: nothing was indexed
NoUse ==
  [q |-> {}, k |-> {}, v |-> {}, attn_out |-> {}, attn_probs |-> {},
   kv_head |-> {}, cache |-> {}]

\* layer0_step.cpp: a caller builds a Layer0Context from the config of the
\* weights it loaded and runs one step at pos
ContextStep ==
  /\ UNCHANGED <<pvars, lvars, cvars, rvars>>
  /\ wres.op = "load_weights" /\ wres.r.ok
  /\ \E p \in 0..MaxPos :
       LET ctx == CtxNew(wres.r.cfg)
           stepped == ctx.ok /\ p < ctx.cache.max_seq
       IN wres' = [op |-> "context_step", cfg |-> wres.r.cfg, made |-> ctx.ok,
                   pos |-> p, stepped |-> stepped, max_seq |-> ctx.cache.max_seq,
                   len |-> ScratchLen(wres.r.cfg, ctx.cache),
                   use |-> IF stepped THEN StepUse(wres.r.cfg, ctx.cache, p)
                           ELSE NoUse]

\* the caller drops the result of its last call
DropResult ==
  /\ UNCHANGED <<pvars, lvars, cvars, rvars>>
  /\ ~WReady
  /\ wres' = Dropped

WNext == KvLookup \/ LoadTensor \/ LoadWeights \/ DequantRow \/ ContextStep \/ DropResult

\* ====================================================== command-line tools
\* argv[1..argc-1] is modelled as a sequence args, so argc = Len(args) + 1 and
\* argv[i] = args[i]
MaxArgs == 3

ArgWords ==
  { "m.gguf", "--token", "--pos", "--layer", "--lm-head", "--bogus", "-h", "0", "1", "x" }
ArgLists == UNION { [1..n -> ArgWords] : n \in 0..MaxArgs }

\* the file a path names: whether parse and the loader accept it, and the
\* dimensions load_weights finds in it
CliFiles == [valid : BOOLEAN, n_layers : 1..MaxFileLayers, vocab_size : 1..2]

\* std::stoul(s): the words that are numbers; any other word throws
\* std::invalid_argument
Digits == [w \in {"0", "1"} |-> IF w = "0" THEN 0 ELSE 1]
stoul(w) == IF w \in DOMAIN Digits THEN [ok |-> TRUE, val |-> Digits[w]]
            ELSE [ok |-> FALSE, val |-> 0]

\* inspect: main(argc, argv), the exit code
inspect_main(args, f) ==
  IF Len(args) + 1 # 2 \/ args[1] = "-h" \/ args[1] = "--help"
  THEN (IF Len(args) + 1 = 2 THEN 0 ELSE 2)
  ELSE IF ~f.valid THEN 1          \* MappedFile or parse throws, caught
  ELSE 0

\* smoke_load: the argument loop from argv[i] on: [thrown, layer, lm_head]
RECURSIVE SmokeArgs(_, _, _)
SmokeArgs(args, i, st) ==
  IF i > Len(args) THEN st
  ELSE IF args[i] = "--lm-head" THEN SmokeArgs(args, i + 1, [st EXCEPT !.lm_head = TRUE])
  ELSE IF args[i] = "--layer"
  THEN (IF i + 1 >= Len(args) + 1
        THEN [st EXCEPT !.thrown = "--layer requires an argument"]
        ELSE IF ~stoul(args[i + 1]).ok THEN [st EXCEPT !.thrown = "stoul"]
        ELSE SmokeArgs(args, i + 2, [st EXCEPT !.layer = stoul(args[i + 1]).val]))
  ELSE [st EXCEPT !.thrown = "unknown arg"]

\* smoke_load: main(argc, argv), the exit code
smoke_load_main(args, f) ==
  IF Len(args) + 1 < 2 THEN 2
  ELSE LET st == SmokeArgs(args, 2, [thrown |-> "none", layer |-> 0, lm_head |-> FALSE])
       IN IF st.thrown # "none" THEN 1        \* caught by main's handler
          ELSE IF ~f.valid THEN 1             \* GGUFLoader throws
          ELSE IF st.layer >= f.n_layers THEN 1   \* load_weights: out of range
          ELSE IF 1 >= f.vocab_size THEN 1    \* gather_column(token_embd, 1)
          ELSE 0

\* layer0_step: the argument loop from argv[i] on:
\* [thrown, token, have_token, pos]
RECURSIVE StepArgs(_, _, _)
StepArgs(args, i, st) ==
  IF i > Len(args) THEN st
  ELSE IF args[i] = "--token"
  THEN (IF i + 1 >= Len(args) + 1
        THEN [st EXCEPT !.thrown = "--token requires an argument"]
        ELSE IF ~stoul(args[i + 1]).ok THEN [st EXCEPT !.thrown = "stoul"]
        ELSE StepArgs(args, i + 2,
                      [st EXCEPT !.token = stoul(args[i + 1]).val, !.have_token = TRUE]))
  ELSE IF args[i] = "--pos"
  THEN (IF i + 1 >= Len(args) + 1
        THEN [st EXCEPT !.thrown = "--pos requires an argument"]
        ELSE IF ~stoul(args[i + 1]).ok THEN [st EXCEPT !.thrown = "stoul"]
        ELSE StepArgs(args, i + 2, [st EXCEPT !.pos = stoul(args[i + 1]).val]))
  ELSE [st EXCEPT !.thrown = "unknown arg"]

\* layer0_step: main(argc, argv), the exit code
layer0_step_main(args, f) ==
  IF Len(args) + 1 < 2 THEN 2
  ELSE LET st == StepArgs(args, 2, [thrown |-> "none", token |-> 0,
                                    have_token |-> FALSE, pos |-> 0])
       IN IF st.thrown # "none" THEN 1        \* caught by main's handler
          ELSE IF ~st.have_token THEN 1       \* "missing --token"
          ELSE IF st.pos # 0 THEN 1
          ELSE IF ~f.valid THEN 1             \* GGUFLoader or load_weights throws
          ELSE IF st.token >= f.vocab_size THEN 1
          ELSE 0

\* a shell runs inspect
RunInspect ==
  /\ UNCHANGED <<pvars, lvars, wvars, rvars>>
  /\ cli = NoRes
  /\ \E args \in ArgLists, f \in CliFiles :
       cli' = [op |-> "run", tool |-> "inspect", args |-> args, file |-> f,
               exit |-> inspect_main(args, f)]

\* a shell runs smoke_load
RunSmokeLoad ==
  /\ UNCHANGED <<pvars, lvars, wvars, rvars>>
  /\ cli = NoRes
  /\ \E args \in ArgLists, f \in CliFiles :
       cli' = [op |-> "run", tool |-> "smoke_load", args |-> args, file |-> f,
               exit |-> smoke_load_main(args, f)]

\* a shell runs layer0_step
RunLayer0Step ==
  /\ UNCHANGED <<pvars, lvars, wvars, rvars>>
  /\ cli = NoRes
  /\ \E args \in ArgLists, f \in CliFiles :
       cli' = [op |-> "run", tool |-> "layer0_step", args |-> args, file |-> f,
               exit |-> layer0_step_main(args, f)]

CNext == RunInspect \/ RunSmokeLoad \/ RunLayer0Step

\* ============================================================== kernels
\* ------------------------------------------ kernels/rope.h on IEEE floats
\* a float by class: "nan", "inf", "zero", "fin" (finite and non-zero, of
\* magnitude mag), with its sign, or "rot": the result of a rotation by an
\* angle that is neither 0 nor NaN, told apart by the tuple of
MaxRopeDim == 16

Fl(cls, neg, mag) == [cls |-> cls, neg |-> neg, mag |-> mag, of |-> <<>>]
FNaN == Fl("nan", FALSE, 0)

\* a * 1.0f and a * 0.0f (cos and sin of the angle +0)
FMulOne(a) == a
FMulZero(a) == IF a.cls \in {"nan", "inf"} THEN FNaN ELSE Fl("zero", a.neg, 0)

\* a - z and z + a for a z that is a zero or NaN
FSubZ(a, z) ==
  IF a.cls = "nan" \/ z.cls = "nan" THEN FNaN
  ELSE IF a.cls = "zero" THEN Fl("zero", a.neg /\ ~z.neg, 0)
  ELSE a
FAddZ(z, a) ==
  IF a.cls = "nan" \/ z.cls = "nan" THEN FNaN
  ELSE IF a.cls = "zero" THEN Fl("zero", a.neg /\ z.neg, 0)
  ELSE a

\* theta as a float: a power of two 2^e, +inf, or a value reset rejects
ThetaChoices ==
  { [cls |-> "pow2", e |-> e] : e \in {-149, 0, 13} }
  \cup { [cls |-> c, e |-> 0] : c \in {"inf", "zero", "neg", "nan"} }

\* inv_freq_[i] = std::pow(theta, -(2 i / rope_dim)) by class: 2^(-e 2i / rope_dim)
\* overflows a float from 2^128 on
InvFreq(rope_dim, theta, i) ==
  IF i = 0 THEN "fin"
  ELSE IF theta.cls = "inf" THEN "zero"
  ELSE IF -theta.e * 2 * i >= 128 * rope_dim THEN "inf"
  ELSE "fin"

\* a default-constructed RoPECache
NoRope == [rope_dim_ |-> 0, inv_freq_ |-> <<>>]

\* RoPECache::reset(rope_dim, theta) on cache c: [ok, err, cache];
\* inv_freq_ is indexed from 1 here
reset(c, rope_dim, theta) ==
  IF rope_dim = 0 \/ rope_dim % 2 # 0 THEN [ok |-> FALSE, err |-> "InvalidDim", cache |-> c]
  ELSE IF theta.cls \in {"zero", "neg", "nan"}
  THEN [ok |-> FALSE, err |-> "InvalidTheta", cache |-> c]
  ELSE [ok |-> TRUE, err |-> "none",
        cache |-> [rope_dim_ |-> rope_dim,
                   inv_freq_ |-> [i \in 1..(rope_dim \div 2) |->
                                    InvFreq(rope_dim, theta, i - 1)]]]

\* a plausible slip: positions counted from 1
AngleOneBased(p, f) ==
  IF f = "zero" THEN "zero" ELSE IF f = "inf" THEN "nan" ELSE "general"

\* angle = static_cast<float>(pos) * inv_freq_[i], by class
Angle(p, f) ==
  IF p = 0 THEN (IF f = "inf" THEN "nan" ELSE "zero")
  ELSE IF f = "zero" THEN "zero"
  ELSE IF f = "inf" THEN "nan"      \* cos and sin of an infinity are NaN
  ELSE "general"

\* the components apply_inplace assigns: head[2 i] and head[2 i + 1], i < rope_dim_ / 2
Rotated(c, head_dim, j) == j % head_dim < c.rope_dim_

\* head[idx0] and head[idx1] after the assignments of one iteration
RotPair(v0, v1, ang, p, i) ==
  IF ang = "zero"
  THEN << FSubZ(FMulOne(v0), FMulZero(v1)), FAddZ(FMulZero(v0), FMulOne(v1)) >>
  ELSE IF ang = "nan" THEN << FNaN, FNaN >>
  ELSE << [cls |-> "rot", neg |-> FALSE, mag |-> 0, of |-> <<p, i, 0, v0, v1>>],
          [cls |-> "rot", neg |-> FALSE, mag |-> 0, of |-> <<p, i, 1, v0, v1>>] >>

\* RoPECache::apply_inplace(x, n_heads, head_dim, pos) on cache c and a
\* buffer xv indexed from 0: [ok, err, vec]
apply_inplace(c, xv, n_heads, head_dim, p) ==
  IF c.rope_dim_ = 0 THEN [ok |-> FALSE, err |-> "InvalidDim", vec |-> xv]
  ELSE IF c.rope_dim_ > head_dim THEN [ok |-> FALSE, err |-> "InvalidDim", vec |-> xv]
  ELSE IF c.rope_dim_ % 2 # 0 THEN [ok |-> FALSE, err |-> "InvalidDim", vec |-> xv]
  ELSE [ok |-> TRUE, err |-> "none",
        vec |-> [j \in DOMAIN xv |->
                   IF j < n_heads * head_dim /\ Rotated(c, head_dim, j)
                   THEN LET i == (j % head_dim) \div 2
                            base == j - (j % 2)
                        IN RotPair(xv[base], xv[base + 1],
                                   Angle(p, c.inv_freq_[i + 1]), p, i)[(j % 2) + 1]
                   ELSE xv[j]]]

FloatChoices ==
  { FNaN, Fl("inf", FALSE, 0), Fl("inf", TRUE, 0), Fl("zero", FALSE, 0),
    Fl("zero", TRUE, 0), Fl("fin", TRUE, 2) }

\* buffers of n floats: 1.0f everywhere but at one index
Buffers(n) ==
  { [j \in 0..(n - 1) |-> IF j = at THEN s ELSE Fl("fin", FALSE, 1)] :
      at \in 0..(n - 1), s \in FloatChoices }

\* a caller builds a RoPECache and rotates a buffer of n_heads heads
RopeCall ==
  /\ UNCHANGED <<pvars, lvars, cvars, rvars>>
  /\ WReady
  /\ \E rd \in {0, 2, 3, 4, MaxRopeDim}, theta \in ThetaChoices,
        n_heads \in {1, 2}, head_dim \in {2, 4, MaxRopeDim}, p \in {0, 1} :
       \E xv \in Buffers(n_heads * head_dim) :
         LET c == reset(NoRope, rd, theta).cache
         IN wres' = [op |-> "rope", cache |-> c, n_heads |-> n_heads,
                     head_dim |-> head_dim, pos |-> p, before |-> xv,
                     r |-> apply_inplace(c, xv, n_heads, head_dim, p)]

\* ------------------------------------- KVCacheLayer used on its own
\* uint32_t dimensions, the last with a product of 2^WordBits
CacheDims ==
  { <<n, m, h>> : n \in {1, 2}, m \in {1, 2, 3}, h \in {1, 2} }
  \cup { <<0, 1, 1>>,
         <<2^(WordBits \div 2 - 1), 2^(WordBits \div 2 - 1),
           2^(WordBits - 2 * (WordBits \div 2 - 1))>> }

\* the vector a caller passes to write: n floats, each told apart by tag
Vec(tag, n) == [i \in 0..(n - 1) |-> <<tag, i>>]

\* a cache is constructed, written at p1 and then written at p2
KvWriteCall ==
  /\ UNCHANGED <<pvars, lvars, cvars, rvars>>
  /\ WReady
  /\ \E dims \in CacheDims, p1 \in 0..3, p2 \in 0..3 :
       LET made == KVCacheNew(dims[1], dims[2], dims[3])
           n    == dims[1] * dims[3]
           w1   == KVCacheWrite(made.cache, p1, Vec("k1", n), Vec("v1", n))
       IN wres' = [op |-> "kv_write", made |-> made.ok, before |-> w1.cache,
                   pos |-> p2, kin |-> Vec("k2", n), vin |-> Vec("v2", n),
                   r |-> IF made.ok
                         THEN KVCacheWrite(w1.cache, p2, Vec("k2", n), Vec("v2", n))
                         ELSE [ok |-> FALSE, err |-> "InvalidDim", cache |-> NoCache]]

\* ------------------------------------- gguf.cpp: tensor_nbytes on its own
\* TensorInfo values: every known ggml_type and some others, dims of rank 0..3
\* with sizes around the block size and around the top of uint64_t
NbytesInputs ==
  LET D0 == {0, 1, 2, 255, 256, 257, 2^(WordBits - 1), U64Max}
      D1 == {0, 1, 2, 3, 2^(WordBits - 1)}
      D2 == {0, 1, 2}
      shapes == {<<>>} \cup { <<a>> : a \in D0 } \cup { <<a, b>> : a \in D0, b \in D1 }
                \cup { <<a, b, d>> : a \in D0, b \in D1, d \in D2 }
  IN { [ggml_type |-> ty, dims |-> sh] : ty \in {0, 1, 2, 12, 13, 14, U32Max}, sh \in shapes }

NbytesCall ==
  /\ UNCHANGED <<pvars, lvars, cvars, rvars>>
  /\ WReady
  /\ \E t \in NbytesInputs :
       wres' = [op |-> "tensor_nbytes", t |-> t, r |-> tensor_nbytes(t)]

\* -------------------------------------------------------- ggml_fp16.h
\* a uint32_t bit pattern kept as its three IEEE binary32 fields: bit 31,
\* bits 30..23 and bits 22..0
Bits32(sign, exp8, mant23) == [sign |-> sign, exp |-> exp8, mant |-> mant23]

\* the loop  while ((mant & 0x0400) == 0) { mant <<= 1; exp -= 1; }
\* with the number of shifts it made
RECURSIVE Normalise(_, _, _)
Normalise(mant, exp8, shifts) ==
  IF (mant \div 1024) % 2 # 0 THEN [mant |-> mant, exp |-> exp8, shifts |-> shifts]
  ELSE Normalise(mant * 2, exp8 - 1, shifts + 1)

\* a plausible slip: the subnormal exponent starts at 127 - 15, without the + 1
fp16_to_fp32_low_start(h) ==
  LET sign == (h \div 32768) % 2
      exp5 == (h \div 1024) % 32
      mant == h % 1024
  IN IF exp5 = 0
     THEN IF mant = 0 THEN [bits |-> Bits32(sign, 0, 0), shifts |-> 0]
          ELSE CHOOSE r \in { [bits |-> Bits32(sign, n.exp, (n.mant % 1024) * 8192),
                               shifts |-> n.shifts] : n \in {Normalise(mant, 112, 0)} } : TRUE
     ELSE IF exp5 = 31 THEN [bits |-> Bits32(sign, 255, mant * 8192), shifts |-> 0]
     ELSE [bits |-> Bits32(sign, exp5 + 112, mant * 8192), shifts |-> 0]

\* fp16_to_fp32(h): the bits handed to bit_cast, and the shifts of the loop
fp16_to_fp32(h) ==
  LET sign == (h \div 32768) % 2        \* (h & 0x8000) << 16
      exp5 == (h \div 1024) % 32        \* (h & 0x7C00) >> 10
      mant == h % 1024                  \* h & 0x03FF
  IN IF exp5 = 0
     THEN IF mant = 0 THEN [bits |-> Bits32(sign, 0, 0), shifts |-> 0]
          ELSE CHOOSE r \in { [bits |-> Bits32(sign, n.exp, (n.mant % 1024) * 8192),
                               shifts |-> n.shifts] : n \in {Normalise(mant, 127 - 15 + 1, 0)} } : TRUE
     ELSE IF exp5 = 31 THEN [bits |-> Bits32(sign, 255, mant * 8192), shifts |-> 0]
     ELSE [bits |-> Bits32(sign, exp5 + (127 - 15), mant * 8192), shifts |-> 0]

Fp16Call ==
  /\ UNCHANGED <<pvars, lvars, cvars, rvars>>
  /\ WReady
  /\ \E h \in 0..(2^16 - 1) :
       wres' = [op |-> "fp16_to_fp32", h |-> h, r |-> fp16_to_fp32(h)]

\* ------------------------------------------------------ dequant_q4_k.cpp
K_SCALE_SIZE == 12

\* a plausible slip: the two top-bit sources of the upper sub-blocks swapped
get_scale_min_k4_swapped(j, q) ==
  IF j < 4
  THEN [d |-> q[j] % 64, m |-> q[j + 4] % 64, reads |-> {j, j + 4}]
  ELSE [d |-> (q[j + 4] % 16) + (q[j] \div 64) * 16,
        m |-> (q[j + 4] \div 16) + (q[j - 4] \div 64) * 16,
        reads |-> {j + 4, j - 4, j}]

\* get_scale_min_k4(j, q, &d, &m): the two bytes stored and the indices of q
\* read; & 63 is % 64, >> 6 is \div 64, and | joins disjoint bit ranges
get_scale_min_k4(j, q) ==
  IF j < 4
  THEN [d |-> q[j] % 64, m |-> q[j + 4] % 64, reads |-> {j, j + 4}]
  ELSE [d |-> (q[j + 4] % 16) + (q[j - 4] \div 64) * 16,
        m |-> (q[j + 4] \div 16) + (q[j - 0] \div 64) * 16,
        reads |-> {j + 4, j - 4, j - 0}]

\* output n of one block: y = d1 * (q[l] & 0xF) - m1 in the first 32 of each
\* group of 64 and d2 * (q[l] >> 4) - m2 in the next 32, q advanced by 32 and
\* is by 2 per group; the floats d and min stay the fp32 bits of x.d, x.dmin
BlockOutQ4K(b, n) ==
  CHOOSE o \in
    { [d |-> fp16_to_fp32(b.d).bits, sc |-> sm.d,
       nib |-> IF (n % 64) < 32 THEN b.qs[32 * (n \div 64) + (n % 32)] % 16
               ELSE b.qs[32 * (n \div 64) + (n % 32)] \div 16,
       min |-> fp16_to_fp32(b.dmin).bits, m |-> sm.m,
       is |-> 2 * (n \div 64) + ((n % 64) \div 32),
       byte |-> 32 * (n \div 64) + (n % 32)]
      : sm \in { get_scale_min_k4(2 * (n \div 64) + ((n % 64) \div 32), b.scales) } } : TRUE

\* the floats dequantize_row_q4_k(x, y, k) writes for k = QK_K * Len(xs): y[0..k)
DecodeRowQ4K(xs) ==
  [n \in 0..(QK_K * Len(xs) - 1) |-> BlockOutQ4K(xs[(n \div QK_K) + 1], n % QK_K)]

\* byte arrays of length n: element i is (seed + i * mul) mod 256
Bytes(n, seed, mul) == [i \in 0..(n - 1) |-> (seed + i * mul) % 256]

ScaleMinCall ==
  /\ UNCHANGED <<pvars, lvars, cvars, rvars>>
  /\ WReady
  /\ \E j \in 0..7, seed \in 0..255, mul \in {0, 1, 37, 67, 101} :
       LET q == Bytes(K_SCALE_SIZE, seed, mul)
       IN wres' = [op |-> "get_scale_min_k4", j |-> j, q |-> q,
                   r |-> get_scale_min_k4(j, q)]

\* blocks with d and dmin among 0.0, 1.0 and 2.0 (fp16 0x0000, 0x3C00, 0x4000)
BlocksQ4K ==
  { [d |-> dd, dmin |-> dm, scales |-> Bytes(K_SCALE_SIZE, sc[1], sc[2]),
     qs |-> Bytes(QK_K \div 2, qq[1], qq[2])] :
      dd \in {15360, 16384}, dm \in {0, 15360},
      sc \in {<<1, 0>>, <<200, 37>>, <<63, 67>>},
      qq \in {<<16, 0>>, <<3, 7>>, <<255, 0>>} }

DequantQ4KCall ==
  /\ UNCHANGED <<pvars, lvars, cvars, rvars>>
  /\ WReady
  /\ \E b1 \in BlocksQ4K, b2 \in BlocksQ4K, nb \in 1..2 :
       LET xs == IF nb = 1 THEN <<b1>> ELSE <<b1, b2>>
       IN /\ nb = 1 => b2 = b1
          /\ wres' = [op |-> "decode_q4_k", x |-> xs,
                      y |-> DecodeRowQ4K(xs)]

\* ------------------------------------------------------ dequant_q6_k.cpp
\* a plausible slip: one scale per 32 outputs, is = l / 32
StoreQ6KOneScale(b, half, l, k) ==
  [y  |-> 128 * half + l + 32 * k,
   ql |-> 64 * half + l + 32 * (k % 2),
   qh |-> 32 * half + l,
   sc |-> 8 * half + (l \div 32) + 2 * k,
   q  |-> ((IF k < 2 THEN b.ql[64 * half + l + 32 * (k % 2)] % 16
            ELSE b.ql[64 * half + l + 32 * (k % 2)] \div 16)
           + ((b.qh[32 * half + l] \div 2^(2 * k)) % 4) * 16) - 32,
   scale |-> b.scales[8 * half + (l \div 32) + 2 * k],
   d  |-> fp16_to_fp32(b.d).bits]

\* the store y[l + 32k] = d * sc[is + 2k] * q(k+1) of the iteration l of the
\* given half (y advanced by 128, ql by 64, qh by 32, sc by 8 per half):
\* the indices it uses, relative to the block, and the factors it multiplies
StoreQ6K(b, half, l, k) ==
  [y  |-> 128 * half + l + 32 * k,
   ql |-> 64 * half + l + 32 * (k % 2),
   qh |-> 32 * half + l,
   sc |-> 8 * half + (l \div 16) + 2 * k,
   q  |-> ((IF k < 2 THEN b.ql[64 * half + l + 32 * (k % 2)] % 16
            ELSE b.ql[64 * half + l + 32 * (k % 2)] \div 16)
           + ((b.qh[32 * half + l] \div 2^(2 * k)) % 4) * 16) - 32,
   scale |-> b.scales[8 * half + (l \div 16) + 2 * k],
   d  |-> fp16_to_fp32(b.d).bits]

\* the stores of one block in program order: halves, then l, then q1..q4
DecodeBlockQ6K(b) ==
  [n \in 1..QK_K |-> StoreQ6K(b, (n - 1) \div 128, ((n - 1) % 128) \div 4, (n - 1) % 4)]

\* blocks whose bytes reach both ends of every field; scales are int8_t
BlocksQ6K ==
  { [ql |-> Bytes(QK_K \div 2, a[1], a[2]), qh |-> Bytes(QK_K \div 4, h[1], h[2]),
     scales |-> [i \in 0..(QK_K \div 16 - 1) |-> ((g[1] + i * g[2]) % 256) - 128],
     d |-> dd] :
      a \in {<<0, 0>>, <<255, 0>>, <<5, 7>>, <<90, 101>>},
      h \in {<<0, 0>>, <<255, 0>>, <<27, 1>>, <<3, 67>>},
      g \in {<<0, 0>>, <<255, 0>>, <<1, 17>>},
      dd \in {15360, 16384} }

DequantQ6KCall ==
  /\ UNCHANGED <<pvars, lvars, cvars, rvars>>
  /\ WReady
  /\ \E b \in BlocksQ6K :
       wres' = [op |-> "decode_q6_k", x |-> b, stores |-> DecodeBlockQ6K(b)]

KNext ==
  RopeCall \/ KvWriteCall \/ NbytesCall \/ Fp16Call \/ ScaleMinCall
  \/ DequantQ4KCall \/ DequantQ6KCall

\* ============================================== resource-owning classes
MaxOpens  == 3     \* open() calls that succeed
MaxMaps   == 2     \* mmap() calls that succeed
MaxAllocs == 2     \* posix_memalign() calls that succeed
Slots == {1, 2}    \* storage for two objects of each class

\* the process: open descriptors, live mappings and allocations, the next id
\* the kernel hands out, and how often each id was closed, unmapped, freed
NoOs ==
  [fds |-> {}, next_fd |-> 1, closed |-> [i \in 1..MaxOpens |-> 0],
   maps |-> {}, next_map |-> 1, unmapped |-> [i \in 1..MaxMaps |-> 0],
   allocs |-> {}, next_alloc |-> 1, freed |-> [i \in 1..MaxAllocs |-> 0]]

SysOpen(o)   == [o EXCEPT !.fds = @ \cup {o.next_fd}, !.next_fd = @ + 1]
SysClose(o, fd) == [o EXCEPT !.fds = @ \ {fd}, !.closed[fd] = @ + 1]
SysMmap(o)   == [o EXCEPT !.maps = @ \cup {o.next_map}, !.next_map = @ + 1]
SysMunmap(o, id) == [o EXCEPT !.maps = @ \ {id}, !.unmapped[id] = @ + 1]
SysMemalign(o) == [o EXCEPT !.allocs = @ \cup {o.next_alloc}, !.next_alloc = @ + 1]
SysFree(o, id) == [o EXCEPT !.allocs = @ \ {id}, !.freed[id] = @ + 1]

\* ---------------------------------------------------------- mapped_file.h
\* storage holding no object; data_ 0 is nullptr, ids from 1 are mappings
NoMappedFile == [alive |-> FALSE, fd_ |-> -1, data_ |-> 0, size_ |-> 0]
CtorOutcomes == {"open_fails", "fstat_fails", "negative_size", "empty", "mmap_fails", "mapped"}

\* a plausible slip: the mmap failure path throws without closing fd_
MappedFileNewLeaky(o, outcome) ==
  IF outcome = "open_fails" THEN [ok |-> FALSE, os |-> o, obj |-> NoMappedFile]
  ELSE IF outcome = "mmap_fails" THEN [ok |-> FALSE, os |-> SysOpen(o), obj |-> NoMappedFile]
  ELSE IF outcome # "mapped"
  THEN [ok |-> FALSE, os |-> SysClose(SysOpen(o), o.next_fd), obj |-> NoMappedFile]
  ELSE [ok |-> TRUE, os |-> SysClose(SysMmap(SysOpen(o)), o.next_fd),
        obj |-> [alive |-> TRUE, fd_ |-> -1, data_ |-> o.next_map, size_ |-> 1]]

\* MappedFile::MappedFile(path) when the system calls end as outcome says:
\* [ok, os, obj]; a constructor that throws leaves no object
MappedFileNew(o, outcome) ==
  IF outcome = "open_fails" THEN [ok |-> FALSE, os |-> o, obj |-> NoMappedFile]
  ELSE IF outcome # "mapped"      \* fstat, st_size, size_ == 0, mmap: close, throw
  THEN [ok |-> FALSE, os |-> SysClose(SysOpen(o), o.next_fd), obj |-> NoMappedFile]
  ELSE [ok |-> TRUE, os |-> SysClose(SysMmap(SysOpen(o)), o.next_fd),
        obj |-> [alive |-> TRUE, fd_ |-> -1, data_ |-> o.next_map, size_ |-> 1]]

\* the release both ~MappedFile and operator= perform on *this
MappedFileRelease(o, m) ==
  LET o1 == IF m.data_ # 0 /\ m.size_ # 0 THEN SysMunmap(o, m.data_) ELSE o
  IN IF m.fd_ >= 0 THEN SysClose(o1, m.fd_) ELSE o1

MfCtor ==
  /\ UNCHANGED <<pvars, lvars, wvars, cvars, ab>>
  /\ \E d \in Slots, outcome \in CtorOutcomes :
       /\ ~mf[d].alive
       /\ outcome # "open_fails" => os.next_fd <= MaxOpens
       /\ outcome = "mapped" => os.next_map <= MaxMaps
       /\ LET r == MappedFileNew(os, outcome)
          IN /\ os' = r.os
             /\ mf' = [mf EXCEPT ![d] = r.obj]

\* MappedFile(MappedFile&& other): *this starts from the default member
\* initialisers, then operator= runs
MfMoveCtor ==
  /\ UNCHANGED <<pvars, lvars, wvars, cvars, ab>>
  /\ \E d \in Slots, s \in Slots :
       /\ ~mf[d].alive /\ mf[s].alive
       /\ os' = MappedFileRelease(os, [NoMappedFile EXCEPT !.alive = TRUE])
       /\ mf' = [mf EXCEPT ![d] = mf[s], ![s] = [NoMappedFile EXCEPT !.alive = TRUE]]

\* MappedFile::operator=(MappedFile&& other), other possibly *this
MfMoveAssign ==
  /\ UNCHANGED <<pvars, lvars, wvars, cvars, ab>>
  /\ \E d \in Slots, s \in Slots :
       /\ mf[d].alive /\ mf[s].alive
       /\ IF d = s THEN UNCHANGED <<mf, os>>
          ELSE /\ os' = MappedFileRelease(os, mf[d])
               /\ mf' = [mf EXCEPT ![d] = mf[s], ![s] = [NoMappedFile EXCEPT !.alive = TRUE]]

\* MappedFile::~MappedFile
MfDtor ==
  /\ UNCHANGED <<pvars, lvars, wvars, cvars, ab>>
  /\ \E d \in Slots :
       /\ mf[d].alive
       /\ os' = MappedFileRelease(os, mf[d])
       /\ mf' = [mf EXCEPT ![d] = NoMappedFile]

\* --------------------------------------------------------- aligned_alloc.h
NoAlignedBuffer == [alive |-> FALSE, ptr_ |-> 0, bytes_ |-> 0]
AllocOutcomes == {"zero_bytes", "bad_alignment", "memalign_fails", "allocated"}

\* AlignedBuffer::allocate(bytes, alignment): [ok, os, obj]
AlignedBufferAllocate(o, outcome) ==
  IF outcome # "allocated" THEN [ok |-> FALSE, os |-> o, obj |-> NoAlignedBuffer]
  ELSE [ok |-> TRUE, os |-> SysMemalign(o),
        obj |-> [alive |-> TRUE, ptr_ |-> o.next_alloc, bytes_ |-> 1]]

\* the release both ~AlignedBuffer and operator= perform on *this
AlignedBufferRelease(o, b) == IF b.ptr_ # 0 THEN SysFree(o, b.ptr_) ELSE o

\* AlignedBuffer() and AlignedBuffer::allocate into fresh storage
AbCtor ==
  /\ UNCHANGED <<pvars, lvars, wvars, cvars, mf>>
  /\ \E d \in Slots, outcome \in AllocOutcomes \cup {"default"} :
       /\ ~ab[d].alive
       /\ outcome = "allocated" => os.next_alloc <= MaxAllocs
       /\ IF outcome = "default"
          THEN /\ ab' = [ab EXCEPT ![d] = [NoAlignedBuffer EXCEPT !.alive = TRUE]]
               /\ os' = os
          ELSE LET r == AlignedBufferAllocate(os, outcome)
               IN /\ os' = r.os
                  /\ ab' = [ab EXCEPT ![d] = r.obj]

AbMoveCtor ==
  /\ UNCHANGED <<pvars, lvars, wvars, cvars, mf>>
  /\ \E d \in Slots, s \in Slots :
       /\ ~ab[d].alive /\ ab[s].alive
       /\ os' = AlignedBufferRelease(os, [NoAlignedBuffer EXCEPT !.alive = TRUE])
       /\ ab' = [ab EXCEPT ![d] = ab[s], ![s] = [NoAlignedBuffer EXCEPT !.alive = TRUE]]

AbMoveAssign ==
  /\ UNCHANGED <<pvars, lvars, wvars, cvars, mf>>
  /\ \E d \in Slots, s \in Slots :
       /\ ab[d].alive /\ ab[s].alive
       /\ IF d = s THEN UNCHANGED <<ab, os>>
          ELSE /\ os' = AlignedBufferRelease(os, ab[d])
               /\ ab' = [ab EXCEPT ![d] = ab[s], ![s] = [NoAlignedBuffer EXCEPT !.alive = TRUE]]

AbDtor ==
  /\ UNCHANGED <<pvars, lvars, wvars, cvars, mf>>
  /\ \E d \in Slots :
       /\ ab[d].alive
       /\ os' = AlignedBufferRelease(os, ab[d])
       /\ ab' = [ab EXCEPT ![d] = NoAlignedBuffer]

RNext ==
  MfCtor \/ MfMoveCtor \/ MfMoveAssign \/ MfDtor
  \/ AbCtor \/ AbMoveCtor \/ AbMoveAssign \/ AbDtor

RIdle ==
  /\ mf = [d \in Slots |-> NoMappedFile]
  /\ ab = [d \in Slots |-> NoAlignedBuffer]
  /\ os = NoOs

\* ======================================================== specifications
vars == <<pvars, lvars, wvars, cvars, rvars>>

WIdle == wres = NoRes
CIdle == cli = NoRes

\* no file is being parsed
PIdle ==
  /\ fsize = MaxFileSize
  /\ pos = 0
  /\ pc = "idle"
  /\ err = "none"
  /\ hdr = NoHeader
  /\ metadata = <<>>
  /\ tensors = <<>>
  /\ kv_index_by_key = EmptyMap
  /\ tensor_index_by_name = EmptyMap
  /\ data_section_offset = 0
  /\ tensor_size_from_offsets = <<>>
  /\ arr = NoArr
  /\ consumed = <<>>

\* the parser and the loader on one file
Init == PInit /\ LInit /\ WIdle /\ CIdle /\ RIdle
Next == PNext \/ GetTensor
Spec == Init /\ [][Next]_vars

\* one Layer0Context and its caller
InitLayer == PIdle /\ LInit /\ WIdle /\ CIdle /\ RIdle
NextLayer == LNext
SpecLayer == InitLayer /\ [][NextLayer]_vars

\* a constructed GGUFLoader and its callers
InitWeights == WInit /\ LInit /\ WIdle /\ CIdle /\ RIdle
NextWeights == WNext
SpecWeights == InitWeights /\ [][NextWeights]_vars

\* the kernels called on their own
InitKernels == PIdle /\ LInit /\ WIdle /\ CIdle /\ RIdle
NextKernels == KNext
SpecKernels == InitKernels /\ [][NextKernels]_vars

\* objects of the resource-owning classes created, moved and destroyed
InitResources == PIdle /\ LInit /\ WIdle /\ CIdle /\ RIdle
NextResources == RNext
SpecResources == InitResources /\ [][NextResources]_vars

\* the command-line tools run from a shell
InitCli == PIdle /\ LInit /\ WIdle /\ CIdle /\ RIdle
NextCli == CNext
SpecCli == InitCli /\ [][NextCli]_vars

\* ================================================================ claims
SetMin(S) == CHOOSE a \in S : \A b \in S : a <= b
SetMax(S) == CHOOSE a \in S : \A b \in S : b <= a
Parsed == pc \in {"parsed", "loaded"}
KnownType(t) == t.ggml_type \in {0, 1, 12, 14}

\* the byte count of a tensor in unbounded arithmetic:
\* ceil(d0 / block_size) * d1 * d2 * ... * type_size, 0 for empty dims
RECURSIVE ProdFrom(_, _)
ProdFrom(dims, i) == IF i > Len(dims) THEN 1 ELSE dims[i] * ProdFrom(dims, i + 1)
MathNbytes(t) ==
  LET tr == ggml_type_traits(t.ggml_type)
  IN IF Len(t.dims) = 0 THEN 0
     ELSE ((t.dims[1] + tr.block_size - 1) \div tr.block_size)
          * ProdFrom(t.dims, 2) * tr.type_size

\* C1: after parse returns, every tensor of a known ggml_type lies inside the
\* file: data_section_offset + offset + nbytes(dims, type) <= file size.
C1_TensorRangesInFile ==
  Parsed =>
    \A i \in 1..Len(tensors) :
      KnownType(tensors[i]) =>
        data_section_offset + tensors[i].offset + MathNbytes(tensors[i]) <= fsize

\* C2: parse never accepts a known-type tensor whose byte count cannot be
\* computed because a u64 multiplication overflows.
C2_OverflowRejected ==
  Parsed =>
    \A i \in 1..Len(tensors) :
      KnownType(tensors[i]) => tensor_nbytes(tensors[i]).has

\* C3: the skip over an array payload is bounds-checked for every byte count:
\* it fails with PastEOF and leaves the cursor where it was whenever
\* pos + n exceeds the file size, and otherwise advances the cursor by n.
C3_SkipBoundsChecked ==
  arr.skipped =>
    IF arr.at + arr.bytes > fsize
    THEN pc = "failed" /\ err = "PastEOF" /\ pos = arr.at
    ELSE pc # "failed" /\ pos = arr.at + arr.bytes

\* C4: for an array of fixed-size elements the payload byte count is
\* length x element size; when that product overflows u64 parse fails with
\* ArithmeticOverflow with the cursor still behind the array header, and an
\* array of arrays fails with UnsupportedArrayOfArray.
C4_ArrayByteCountChecked ==
  arr.seen =>
    LET es == ElemSize(arr.elem)
    IN /\ (es > 0 /\ arr.n * es > U64Max) =>
            (pc = "failed" /\ err = "ArithmeticOverflow" /\ pos = arr.at)
       /\ (es > 0 /\ arr.n * es <= U64Max) =>
            (arr.skipped /\ arr.bytes = arr.n * es /\ err # "ArithmeticOverflow")
       /\ arr.elem = Array =>
            (pc = "failed" /\ err = "UnsupportedArrayOfArray" /\ pos = arr.at)

\* C4 witness: an array of 2-byte elements whose byte count overflows was read
C4_Witness ==
  /\ arr.seen
  /\ ElemSize(arr.elem) = 2
  /\ arr.n * 2 > U64Max
  /\ pc = "failed"

KeyPositions(k) == { i \in 1..Len(metadata) : metadata[i].key = k }
NamePositions(n) == { i \in 1..Len(tensors) : tensors[i].name = n }
VectorsInParseOrder ==
  /\ Len(consumed) = Len(metadata) + Len(tensors)
  /\ \A i \in 1..Len(metadata) : consumed[i] = <<"kv", metadata[i].key>>
  /\ \A i \in 1..Len(tensors) :
       consumed[Len(metadata) + i] = <<"tensor", tensors[i].name>>

C6_NonMonotonicRejected ==
  pc = "loaded" =>
    \A i, j \in 1..Len(tensors) : i < j => tensors[i].offset <= tensors[j].offset

OkCalls == { i \in 1..Len(calls) : calls[i].ok }

\* C7: over any sequence of step calls on one context the positions written
\* to the KV cache are strictly increasing.
C7_WritesStrictlyIncreasing ==
  \A i, j \in OkCalls : i < j => calls[i].pos < calls[j].pos

\* step was called at positions 0, 1, ..., p in that order and every call returned
InOrder ==
  /\ Len(calls) > 0
  /\ \A i \in 1..Len(calls) : calls[i].ok /\ calls[i].pos = i - 1

\* C8: after step calls at positions 0..p in that order, slot (g, t) of the
\* cache holds the rotated key and the value written by step t, for every
\* t <= p and every kv head g, and the slots attention reads at step p are
\* among those.
C8_SlotsHoldTheirStep ==
  InOrder =>
    LET p == Len(calls) - 1
    IN /\ \A t \in 0..p, g \in 0..(cache_.n_kv_heads - 1), i \in 0..(cache_.head_dim - 1) :
            /\ KAt(cache_, g, t, i) = calls[t + 1].k[g * cache_.head_dim + i]
            /\ VAt(cache_, g, t, i) = calls[t + 1].v[g * cache_.head_dim + i]
       /\ calls[p + 1].reads \subseteq (0..(cache_.n_kv_heads - 1)) \X (0..p)

\* C8 witness: three steps in order on a cache with two kv heads
C8_Witness ==
  /\ InOrder
  /\ Len(calls) = 3
  /\ cache_.n_kv_heads = 2
  /\ cache_.head_dim = 2

\* C9: a step (and KVCacheLayer::write) at pos >= max_seq fails with
\* OutOfRange, and whenever a step fails the caller's x and the KV cache are
\* what they were before the call.
C9_FailedStepChangesNothing ==
  [][ Len(calls') = Len(calls) + 1 =>
        LET c == calls'[Len(calls')]
        IN /\ c.pos >= cache_.max_seq => (~c.ok /\ c.err = "OutOfRange")
           /\ ~c.ok => (x' = x /\ cache_' = cache_)
           /\ \A p \in 0..MaxPos :
                p >= cache_.max_seq =>
                  LET w == KVCacheWrite(cache_', p, c.k, c.v)
                  IN ~w.ok /\ w.err = "OutOfRange" /\ w.cache = cache_' ]_vars

\* C9 witness: on a context whose cache holds data from a successful step,
\* the latest step failed with OutOfRange for its position.
C9_Witness ==
  /\ Len(calls) >= 2
  /\ calls[1].ok
  /\ DOMAIN cache_.k # {}
  /\ ~calls[Len(calls)].ok
  /\ calls[Len(calls)].err = "OutOfRange"

\* C10: on a context the constructor accepted, every step with
\* pos < max_seq completes without an error.
C10_NoErrorInsideStep ==
  \A i \in 1..Len(calls) : calls[i].pos < cache_.max_seq => calls[i].ok

\* C11: in every step that returned, query head h reads keys and values only
\* from a kv head < n_kv_heads, kv head g serves exactly the
\* n_heads / n_kv_heads consecutive query heads starting at
\* g * (n_heads / n_kv_heads), and for 4 query heads over 2 kv heads the
\* heads {0,1} read kv head 0 and {2,3} read kv head 1.
C11_GroupedQueryRouting ==
  \A i \in OkCalls :
    LET r == calls[i].route
        G == cfg_.n_heads \div cfg_.n_kv_heads
    IN /\ DOMAIN r = 0..(cfg_.n_heads - 1)
       /\ \A h \in DOMAIN r : r[h] \in 0..(cfg_.n_kv_heads - 1)
       /\ \A g \in 0..(cfg_.n_kv_heads - 1) :
            { h \in DOMAIN r : r[h] = g } = (g * G)..(g * G + G - 1)
       /\ calls[i].reads = { <<r[h], t>> : h \in DOMAIN r, t \in 0..calls[i].pos }
       /\ (cfg_.n_heads = 4 /\ cfg_.n_kv_heads = 2) =>
            r = [h \in 0..3 |-> IF h < 2 THEN 0 ELSE 1]

\* C11 witness: a step at position 1 returned on a context with 4 query
\* heads over 2 kv heads
C11_Witness ==
  /\ cfg_.n_heads = 4
  /\ cfg_.n_kv_heads = 2
  /\ Len(calls) >= 2
  /\ calls[Len(calls)].ok
  /\ calls[Len(calls)].pos = 1

\* C12: every ModelConfig carried by a Weights value that load_weights returned
\* has d_model % n_heads = 0, head_dim = d_model / n_heads,
\* kv_dim = n_kv_heads * head_dim and n_heads % n_kv_heads = 0.
C12_ConfigInvariantsEnforced ==
  (wres.op = "load_weights" /\ wres.r.ok) =>
     LET c == wres.r.cfg
     IN /\ c.n_heads # 0 /\ c.n_kv_heads # 0
        /\ c.d_model % c.n_heads = 0
        /\ c.head_dim = c.d_model \div c.n_heads
        /\ c.kv_dim = c.n_kv_heads * c.head_dim
        /\ c.n_heads % c.n_kv_heads = 0

\* the first position of layer_indices holding an index >= n_layers, 0 if none
FirstOutOfRange(cfg, idxs) ==
  IF \A k \in 1..Len(idxs) : idxs[k] < cfg.n_layers THEN 0
  ELSE SetMin({ k \in 1..Len(idxs) : idxs[k] >= cfg.n_layers })

\* C13: a call of load_weights that requests a layer index >= n_layers fails
\* without loading that layer, and with OutOfRange whenever everything before
\* that index loads; a call that succeeds returns the layers in the order of
\* layer_indices, layer k carrying index layer_indices[k], and no call loads
\* a layer that was not requested.
C13_LayerRangeAndOrder ==
  wres.op = "load_weights" =>
    LET r == wres.r
        idxs == wres.layer_indices
        bad == FirstOutOfRange(r.cfg, idxs)
    IN /\ bad # 0 =>
            /\ ~r.ok
            /\ Len(r.started) < bad
            /\ load_weights(SubSeq(idxs, 1, bad - 1), wres.load_lm_head).ok
                 => r.err = "OutOfRange"
       /\ r.err = "OutOfRange" => bad # 0 /\ r.started = SubSeq(idxs, 1, bad - 1)
       /\ r.started = SubSeq(idxs, 1, Len(r.started))
       /\ r.ok =>
            /\ Len(r.layers) = Len(idxs)
            /\ \A k \in 1..Len(idxs) :
                 r.layers[k].index = idxs[k] /\ idxs[k] < r.cfg.n_layers
            /\ r.started = idxs

\* C13 witness: layer 1 was loaded, then the second requested index was
\* n_layers and the call failed with OutOfRange
C13_Witness ==
  /\ wres.op = "load_weights"
  /\ Len(wres.layer_indices) = 2
  /\ wres.layer_indices[1] = 1
  /\ wres.layer_indices[2] = wres.r.cfg.n_layers
  /\ wres.r.err = "OutOfRange"
  /\ wres.r.started = <<1>>

\* the shape the LayerWeights / GlobalWeights listing gives tensor name
ListedDims(cfg, name) ==
  LET d == cfg.d_model
      s == name[2]
  IN IF name = TokenEmbd \/ name = Output THEN <<d, cfg.vocab_size>>
     ELSE IF s \in {"output_norm.weight", "attn_norm.weight", "ffn_norm.weight"} THEN <<d>>
     ELSE IF s \in {"attn_q.weight", "attn_output.weight"} THEN <<d, d>>
     ELSE IF s \in {"attn_k.weight", "attn_v.weight"} THEN <<d, cfg.kv_dim>>
     ELSE IF s \in {"ffn_gate.weight", "ffn_up.weight"} THEN <<d, cfg.ffn_hidden_dim>>
     ELSE <<cfg.ffn_hidden_dim, d>>

\* the tensors a call load_weights(idxs, lm) asks for
RequestedTensors(idxs, lm) ==
  {TokenEmbd} \cup (IF lm THEN {OutputNorm, Output} ELSE {})
  \cup { Blk(idxs[k], LayerTensors[j]) : k \in 1..Len(idxs), j \in 1..Len(LayerTensors) }

\* C14: when load_weights succeeds, token_embd has dims [d_model, vocab_size]
\* and each of the nine tensors of every returned layer has the listed dims;
\* a requested tensor whose dims differ from the listed shape makes the call
\* fail, with UnexpectedShape when every requested tensor loads and the
\* metadata and the layer indices are valid, and UnexpectedShape is only
\* thrown for such a tensor.
C14_ShapesChecked ==
  wres.op = "load_weights" =>
    LET r == wres.r
        names == RequestedTensors(wres.layer_indices, wres.load_lm_head)
        wrong == { n \in names : get_tensor(n).ok /\ get_tensor(n).dims # ListedDims(r.cfg, n) }
    IN /\ r.ok =>
            /\ r.token_embd = <<r.cfg.d_model, r.cfg.vocab_size>>
            /\ \A k \in 1..Len(r.layers) : \A j \in 1..Len(LayerTensors) :
                 r.layers[k].dims[LayerTensors[j]]
                   = ListedDims(r.cfg, Blk(r.layers[k].index, LayerTensors[j]))
            /\ wrong = {}
       /\ r.err = "UnexpectedShape" => wrong # {}
       /\ ( /\ wrong # {}
            /\ r.err \notin {"MissingMetadata", "OutOfRange", "VocabTooLarge"}
            /\ \A n \in names : load_tensor_as_f32(n).ok )
          => r.err = "UnexpectedShape"

\* C14 witness: both requested layers loaded, then the shape check of
\* blk.1.attn_q.weight failed
C14_Witness ==
  /\ wres.op = "load_weights"
  /\ wres.layer_indices = <<0, 1>>
  /\ wres.r.err = "UnexpectedShape"
  /\ wres.r.started = <<0, 1>>
  /\ get_tensor(Blk(0, "attn_q.weight")).dims = <<wres.r.cfg.d_model, wres.r.cfg.d_model>>
  /\ get_tensor(Blk(1, "attn_q.weight")).dims # <<wres.r.cfg.d_model, wres.r.cfg.d_model>>

\* the source bytes a tensor of a supported type needs for its dims
NeededBytes(ty, dims) ==
  IF ty = 0 THEN 4 * ProdFrom(dims, 1)
  ELSE IF ty = 1 THEN 2 * ProdFrom(dims, 1)
  ELSE (dims[1] \div QK_K) * ProdFrom(dims, 2)
       * (IF ty = 12 THEN SizeofBlockQ4K ELSE SizeofBlockQ6K)

\* C15: load_tensor_as_f32 fails with TensorNotFound exactly when the name is
\* not in the directory; a tensor of a ggml_type other than 0, 1, 12, 14 never
\* loads and fails with UnsupportedType once its view and its output buffer
\* exist; Truncated is thrown exactly when a supported tensor's view holds
\* fewer bytes than its dims need; on success the result has the view's dims,
\* numel is the product of the dims, and the bytes read are exactly the
\* needed ones and lie inside the view.
C15_LoadTensorContract ==
  wres.op = "load_tensor" =>
    LET r == wres.r
        v == r.view
        present == wres.name \in DOMAIN tensor_index_by_name
        numel == ProdFrom(v.dims, 1)
        fits == Len(v.dims) > 0 /\ numel > 0 /\ 4 * numel <= U64Max
        supported == v.ggml_type \in {0, 1, 12, 14}
    IN /\ ~present => ~r.ok /\ r.err = "TensorNotFound"
       /\ r.err = "TensorNotFound" => ~present
       /\ (present /\ v.ok /\ ~supported) =>
            /\ ~r.ok
            /\ fits => r.err = "UnsupportedType"
       /\ r.err = "UnsupportedType" => present /\ ~supported
       /\ (present /\ v.ok /\ fits /\ supported
             /\ (v.ggml_type \in {12, 14} => v.dims[1] % QK_K = 0)
             /\ NeededBytes(v.ggml_type, v.dims) <= U64Max) =>
            (r.err = "Truncated" <=> v.nbytes < NeededBytes(v.ggml_type, v.dims))
       /\ r.err = "Truncated" => present /\ v.ok /\ supported
       /\ r.ok =>
            /\ present /\ v.ok /\ supported
            /\ r.dims = v.dims
            /\ r.dims = tensors[tensor_index_by_name[wres.name] + 1].dims
            /\ r.numel = numel
            /\ r.wrote = numel
            /\ r.src_read = NeededBytes(v.ggml_type, v.dims)
            /\ r.src_read <= v.nbytes
            /\ v.file_offset + r.src_read <= fsize

\* C15 witness: a Q6_K tensor of two rows of one block each was loaded
C15_Witness ==
  /\ wres.op = "load_tensor"
  /\ wres.r.ok
  /\ wres.r.view.ggml_type = 14
  /\ wres.r.dims = <<QK_K, 2>>
  /\ wres.r.src_read = 2 * SizeofBlockQ6K

\* C16: dequantize_row_q4_k and dequantize_row_q6_k called with an element
\* count k that is not a multiple of 256 fail with InvalidShape, write no
\* output and decode no block.
C16_PartialRowRejected ==
  (wres.op = "dequant" /\ wres.k % QK_K # 0) =>
     /\ wres.r.outcome = "InvalidShape"
     /\ wres.r.wrote = 0
     /\ wres.r.blocks = 0

\* C20: kv_u32 returns v for a u32 payload and for an i32, u64 or i64 payload
\* with 0 <= v <= 2^32-1, and none for a negative value, a value above
\* 2^32-1, a non-integer payload or an absent key; kv_u64 returns v for u64
\* and u32 payloads and for non-negative i64 and i32 payloads, none
\* otherwise. The value returned is never a truncated or sign-wrapped one.
C20_CoercionExact ==
  wres.op = "kv" =>
    LET present == \E i \in 1..Len(metadata) : metadata[i].key = wres.key
        v == metadata[SetMin({ i \in 1..Len(metadata) : metadata[i].key = wres.key })].value
    IN /\ wres.u32 =
            IF present
               /\ \/ v.type = Uint32
                  \/ v.type \in {Int32, Uint64, Int64} /\ 0 <= v.payload /\ v.payload <= U32Max
            THEN Some(v.payload) ELSE None
       /\ wres.u64 =
            IF present
               /\ \/ v.type \in {Uint64, Uint32}
                  \/ v.type \in {Int64, Int32} /\ 0 <= v.payload
            THEN Some(v.payload) ELSE None

\* C20 witness: llama.block_count holds the i64 value 2^32, which kv_u32
\* rejects and kv_u64 returns
C20_Witness ==
  /\ wres.op = "kv"
  /\ wres.key = "llama.block_count"
  /\ metadata[1].key = "llama.block_count"
  /\ metadata[1].value = Val(Int64, U32Max + 1)
  /\ wres.u32 = None
  /\ wres.u64 = Some(U32Max + 1)

\* the argument list has none of the usage errors: a model path is given,
\* every argument from args[i] on is a known option and every option that
\* takes a value is followed by one
RECURSIVE WellFormedArgs(_, _, _, _)
WellFormedArgs(flags, valued, args, i) ==
  IF i > Len(args) THEN TRUE
  ELSE IF args[i] \in flags THEN WellFormedArgs(flags, valued, args, i + 1)
  ELSE IF args[i] \in valued
  THEN i < Len(args) /\ WellFormedArgs(flags, valued, args, i + 2)
  ELSE FALSE

\* the usage errors of a run: missing model path, unknown argument, option
\* without its value, and for layer0_step a missing --token
UsageError(tool, args) ==
  \/ Len(args) = 0
  \/ tool = "inspect" /\ Len(args) > 1
  \/ tool = "smoke_load" /\ ~WellFormedArgs({"--lm-head"}, {"--layer"}, args, 2)
  \/ tool = "layer0_step"
       /\ \/ ~WellFormedArgs({}, {"--token", "--pos"}, args, 2)
          \/ \A i \in 2..Len(args) : args[i] # "--token"

\* C17: each command-line tool exits with code 2 on every usage error, and
\* with code 0 or 1, never 2, on a run without one: 1 when the file is
\* rejected (for example for a bad magic).
C17_ExitCodes ==
  cli.op = "run" =>
    /\ UsageError(cli.tool, cli.args) => cli.exit = 2
    /\ ~UsageError(cli.tool, cli.args) =>
         /\ cli.exit \in {0, 1}
         /\ (~cli.file.valid /\ cli.args[1] \notin {"-h", "--help"}) => cli.exit = 1

\* C18: on a successful parse the metadata vector has exactly
\* header.metadata_kv_count entries and the tensor vector exactly
\* header.tensor_count entries, both in file order; every key (name) that
\* occurs in a vector is in its index, and every index entry points at an
\* element of the vector whose key (name) equals the index key.
C18_CountsAndIndexConsistent ==
  Parsed =>
    /\ Len(metadata) = hdr.metadata_kv_count
    /\ Len(tensors) = hdr.tensor_count
    /\ VectorsInParseOrder
    /\ \A i \in 1..Len(metadata) : metadata[i].key \in DOMAIN kv_index_by_key
    /\ \A i \in 1..Len(tensors) : tensors[i].name \in DOMAIN tensor_index_by_name
    /\ \A k \in DOMAIN kv_index_by_key :
         /\ kv_index_by_key[k] + 1 \in 1..Len(metadata)
         /\ metadata[kv_index_by_key[k] + 1].key = k
    /\ \A n \in DOMAIN tensor_index_by_name :
         /\ tensor_index_by_name[n] + 1 \in 1..Len(tensors)
         /\ tensors[tensor_index_by_name[n] + 1].name = n

\* C18 witness: a parsed file with two metadata entries under different keys,
\* the second indexed at slot 1
C18_Witness ==
  /\ pc = "parsed"
  /\ hdr.metadata_kv_count = 2
  /\ Len(metadata) = 2
  /\ metadata[1].key # metadata[2].key
  /\ kv_index_by_key[metadata[2].key] = 1

\* the alignment the metadata asks for: 32 unless general.alignment holds a
\* u32, or a u64 that fits in a u32
RequestedAlignment ==
  IF KeyPositions("general.alignment") = {} THEN 32
  ELSE LET v == metadata[SetMin(KeyPositions("general.alignment"))].value
       IN IF v.type = Uint32 \/ (v.type = Uint64 /\ v.payload <= U32Max)
          THEN v.payload ELSE 32

\* the cursor c rounded up: c itself when a = 0, else the least multiple of
\* a that is >= c
LeastMultipleFrom(c, a) ==
  IF a = 0 THEN c ELSE SetMin({ n \in c..(c + a - 1) : n % a = 0 })

\* parse has read the whole tensor directory and takes its last step
FinishStep ==
  /\ pc = "body"
  /\ Len(metadata) = hdr.metadata_kv_count
  /\ Len(tensors) = hdr.tensor_count
  /\ pc' # "body"

\* C19: the step of parse after the tensor directory sets data_section_offset
\* to the cursor rounded up to the requested alignment (the cursor itself for
\* alignment 0, else the least multiple of the alignment >= the cursor), and
\* fails with OutOfBounds when that offset is greater than the file size.
C19_DataSectionOffset ==
  [][ FinishStep =>
        LET d == LeastMultipleFrom(pos, RequestedAlignment)
        IN /\ d > fsize => pc' = "failed" /\ err' = "OutOfBounds"
           /\ pc' = "parsed" => data_section_offset' = d /\ d <= fsize
    ]_vars

\* C19 witness: a parsed file whose general.alignment is 8 and whose data
\* section starts above the end of the tensor directory
C19_Witness ==
  /\ pc = "parsed"
  /\ KeyPositions("general.alignment") # {}
  /\ RequestedAlignment = 8
  /\ data_section_offset > pos
  /\ data_section_offset % 8 = 0
  /\ data_section_offset - pos < 8

\* two floats are the same number (+0 and -0 are), or both NaN
SameValue(a, b) == a = b \/ (a.cls = "zero" /\ b.cls = "zero")
Finite(a) == a.cls \in {"zero", "fin"}

\* apply_inplace must reject the cache: uninitialised, rope_dim > head_dim or odd
RopeRejects ==
  \/ wres.cache.rope_dim_ = 0
  \/ wres.cache.rope_dim_ > wres.head_dim
  \/ wres.cache.rope_dim_ % 2 # 0

\* apply_inplace fails exactly on a rejected cache, with InvalidDim and x
\* unchanged, and otherwise leaves every component outside [0, rope_dim) of
\* every head unchanged
RopeFrame ==
  /\ wres.r.ok <=> ~RopeRejects
  /\ ~wres.r.ok => wres.r.err = "InvalidDim" /\ wres.r.vec = wres.before
  /\ DOMAIN wres.r.vec = DOMAIN wres.before
  /\ \A j \in DOMAIN wres.before :
       j % wres.head_dim >= wres.cache.rope_dim_ => wres.r.vec[j] = wres.before[j]

\* C21 as stated: apply_inplace either fails with InvalidDim leaving x
\* unchanged, or changes only components [0, rope_dim) of each head; at
\* pos = 0 it leaves every component unchanged.
C21_RopeIdentityAtZero ==
  wres.op = "rope" =>
    /\ RopeFrame
    /\ wres.pos = 0 =>
         \A j \in DOMAIN wres.before : SameValue(wres.r.vec[j], wres.before[j])

\* C21 amended: the frame as stated; at pos = 0 a rotated component keeps its
\* value when it and the other component of its pair are finite and the
\* pair's inv_freq is finite (an infinite or NaN component turns its
\* partner into NaN through the product with sin 0 = 0, an infinite
\* inv_freq makes the angle NaN).
C21_RopeFrameFiniteIdentity ==
  wres.op = "rope" =>
    /\ RopeFrame
    /\ (wres.pos = 0 /\ wres.r.ok) =>
         \A j \in DOMAIN wres.before :
           LET base == j - (j % 2)
               i == (j % wres.head_dim) \div 2
           IN ( /\ j % wres.head_dim < wres.cache.rope_dim_
                /\ Finite(wres.before[base]) /\ Finite(wres.before[base + 1])
                /\ wres.cache.inv_freq_[i + 1] # "inf" )
              => SameValue(wres.r.vec[j], wres.before[j])

\* C21 witness: a rotation at pos 0 over the first 2 of 4 components of two
\* heads, on a buffer holding a negative zero in a rotated pair
C21_Witness ==
  /\ wres.op = "rope"
  /\ wres.r.ok
  /\ wres.pos = 0
  /\ wres.cache.rope_dim_ = 2
  /\ wres.head_dim = 4
  /\ wres.n_heads = 2
  /\ wres.before[5] = Fl("zero", TRUE, 0)
  /\ wres.r.vec[5] = Fl("zero", FALSE, 0)

\* C22: across any sequence of construction, move and destruction of
\* MappedFile and AlignedBuffer objects no mapping is unmapped twice and no
\* allocation freed twice, every mapping or allocation not yet released is
\* held by exactly one living object (so its destructor releases it once) and
\* a released one by none, and every descriptor the MappedFile constructor
\* opened has been closed exactly once when the constructor returns or throws.
Holders(id) == { d \in Slots : mf[d].alive /\ mf[d].data_ = id }
Owners(id) == { d \in Slots : ab[d].alive /\ ab[d].ptr_ = id }
C22_ReleasedExactlyOnce ==
  /\ \A id \in 1..(os.next_map - 1) :
       /\ os.unmapped[id] = (IF id \in os.maps THEN 0 ELSE 1)
       /\ Cardinality(Holders(id)) = (IF id \in os.maps THEN 1 ELSE 0)
  /\ \A id \in 1..(os.next_alloc - 1) :
       /\ os.freed[id] = (IF id \in os.allocs THEN 0 ELSE 1)
       /\ Cardinality(Owners(id)) = (IF id \in os.allocs THEN 1 ELSE 0)
  /\ os.fds = {}
  /\ \A fd \in 1..(os.next_fd - 1) : os.closed[fd] = 1
  /\ \A d \in Slots : mf[d].fd_ = -1

\* both mappings were made; the first was moved out of slot 1 into slot 2,
\* whose own mapping the assignment released; a descriptor was closed on a
\* failing constructor path; one buffer was freed and one is still held
C22_Witness ==
  /\ mf[1].alive /\ mf[1].data_ = 0
  /\ mf[2].alive /\ mf[2].data_ = 1
  /\ os.unmapped[1] = 0 /\ os.unmapped[2] = 1
  /\ os.next_fd = 4
  /\ os.freed[1] = 1 /\ os.freed[2] = 0 /\ Owners(2) # {}

\* C23: within one successful step(pos) the cache is written once, at pos,
\* before any attention read; every query head reads exactly the key and the
\* value positions 0..pos of its kv head and none beyond pos; and x is first
\* modified only after the last attention read of the last head.
ReadOps == {"read_k", "read_v"}
At(tr, op) == { n \in DOMAIN tr : tr[n].op = op }
ReadsAt(tr) == { n \in DOMAIN tr : tr[n].op \in ReadOps }
OrderedStep(c) ==
  LET tr == c.trace
  IN /\ Cardinality(At(tr, "write")) = 1
     /\ \A w \in At(tr, "write") :
          tr[w].t = c.pos /\ \A n \in ReadsAt(tr) : w < n
     /\ \A n \in ReadsAt(tr) : tr[n].t <= c.pos
     /\ \A h \in 0..(cfg_.n_heads - 1), op \in ReadOps :
          { tr[n].t : n \in { a \in At(tr, op) : tr[a].h = h } } = 0..c.pos
     /\ At(tr, "add_x") # {}
     /\ \A m \in At(tr, "add_x") : \A n \in ReadsAt(tr) : n < m
C23_StepOrder ==
  \A s \in DOMAIN calls : calls[s].ok => OrderedStep(calls[s])

\* a step at pos 2 over an earlier step, with two query heads on one kv head
C23_Witness ==
  /\ Len(calls) >= 2
  /\ calls[Len(calls)].ok /\ calls[Len(calls)].pos = 2
  /\ cfg_.n_heads = 2 /\ cfg_.n_kv_heads = 1
  /\ Len(calls[Len(calls)].trace) = 17
  /\ x[0].gen >= 1

\* C24: write(pos, k, v) with pos < max_seq puts elements
\* [g*head_dim, (g+1)*head_dim) of its inputs into the key and value slots
\* (g, pos), changes no element outside those slots, leaves every slot (g, t)
\* with t # pos as it was, and the slots start at (g*max_seq + t)*head_dim,
\* each lying whole inside the storage (so no two of them overlap).
SlotStart(c, g, t) == (g * c.max_seq + t) * c.head_dim
SlotRange(c, g, t) == SlotStart(c, g, t)..(SlotStart(c, g, t) + c.head_dim - 1)
Changed(m0, m1) ==
  { a \in DOMAIN m1 : IF a \in DOMAIN m0 THEN m1[a] # m0[a] ELSE m1[a] # Zero }
WriteFrame(c, c2, p, kin, vin) ==
  /\ \A g \in 0..(c.n_kv_heads - 1), i \in 0..(c.head_dim - 1) :
       /\ KAt(c2, g, p, i) = kin[g * c.head_dim + i]
       /\ VAt(c2, g, p, i) = vin[g * c.head_dim + i]
  /\ \A g \in 0..(c.n_kv_heads - 1), t \in 0..(c.max_seq - 1), i \in 0..(c.head_dim - 1) :
       t # p => KAt(c2, g, t, i) = KAt(c, g, t, i) /\ VAt(c2, g, t, i) = VAt(c, g, t, i)
  /\ Changed(c.k, c2.k) \cup Changed(c.v, c2.v)
       \subseteq UNION { SlotRange(c, g, p) : g \in 0..(c.n_kv_heads - 1) }
SlotLayout(c) ==
  \A g \in 0..(c.n_kv_heads - 1), t \in 0..(c.max_seq - 1) :
    /\ SlotBase(c, g, t) = SlotStart(c, g, t)
    /\ SlotStart(c, g, t) + c.head_dim <= c.size
C24_WriteFrameAndLayout ==
  (wres.op = "kv_write" /\ wres.made /\ wres.pos < wres.before.max_seq)
    => /\ wres.r.ok
       /\ WriteFrame(wres.before, wres.r.cache, wres.pos, wres.kin, wres.vin)
       /\ SlotLayout(wres.before)

\* the same statement for dimensions whose product fits size_t
C24_HoldsWhenSizeFits ==
  (wres.op = "kv_write" /\ wres.made /\ wres.pos < wres.before.max_seq
   /\ wres.before.n_kv_heads * wres.before.max_seq * wres.before.head_dim <= U64Max)
    => /\ wres.r.ok
       /\ WriteFrame(wres.before, wres.r.cache, wres.pos, wres.kin, wres.vin)
       /\ SlotLayout(wres.before)

\* C25: tensor_nbytes returns ceil(d0 / block_size) * d1 * d2 * ... * type_size
\* for the ggml_types 0, 1, 12 and 14 (0 for empty dims) and no size for
\* every other ggml_type.
C25_NbytesFormula ==
  wres.op = "tensor_nbytes" =>
    IF KnownType(wres.t)
    THEN wres.r.has /\ wres.r.val = MathNbytes(wres.t)
    ELSE ~wres.r.has

\* the products tensor_nbytes forms, in its order, in unbounded arithmetic
PartialProducts(t) ==
  LET tr == ggml_type_traits(t.ggml_type)
      b0 == (t.dims[1] + tr.block_size - 1) \div tr.block_size
  IN { b0 * ProdFrom(SubSeq(t.dims, 2, n), 1) : n \in 1..Len(t.dims) }
     \cup { b0 * ProdFrom(t.dims, 2) * tr.type_size }
\* the same statement for the inputs none of whose products leaves uint64_t;
\* for the others tensor_nbytes returns no size
C25_HoldsWithoutOverflow ==
  wres.op = "tensor_nbytes" =>
    IF ~KnownType(wres.t) THEN ~wres.r.has
    ELSE IF Len(wres.t.dims) = 0 THEN wres.r.has /\ wres.r.val = 0
    ELSE IF \A pp \in PartialProducts(wres.t) : pp <= U64Max
    THEN wres.r.has /\ wres.r.val = MathNbytes(wres.t)
    ELSE ~wres.r.has

\* C26: fp16_to_fp32 maps every 16-bit pattern to the binary32 pattern of the
\* same value (zeros keep their sign, infinities stay infinities, NaNs stay
\* NaNs); the six patterns of the specification map as listed; a normal value
\* gets exponent + 112 and mantissa << 13; the subnormal loop makes at most
\* 10 shifts.
\* a non-zero real as sign, odd significand and power of two
TrailingZeros(n) == CHOOSE k \in 0..24 : n % 2^k = 0 /\ (n \div 2^k) % 2 = 1
Real(sign, sig, ex) ==
  IF sig = 0 THEN [cls |-> "zero", sign |-> sign, sig |-> 0, ex |-> 0]
  ELSE [cls |-> "fin", sign |-> sign, sig |-> sig \div 2^TrailingZeros(sig),
        ex |-> ex + TrailingZeros(sig)]
Special(cls, sign) == [cls |-> cls, sign |-> sign, sig |-> 0, ex |-> 0]
\* IEEE 754 binary16: the value of the pattern h
HalfValue(h) ==
  LET s16 == (h \div 32768) % 2
      e16 == (h \div 1024) % 32
      m16 == h % 1024
  IN IF e16 = 31 THEN (IF m16 = 0 THEN Special("inf", s16) ELSE Special("nan", 0))
     ELSE IF e16 = 0 THEN Real(s16, m16, -24)
     ELSE Real(s16, 1024 + m16, e16 - 25)
\* IEEE 754 binary32: the value of the pattern b
FloatValue(b) ==
  IF b.exp = 255 THEN (IF b.mant = 0 THEN Special("inf", b.sign) ELSE Special("nan", 0))
  ELSE IF b.exp = 0 THEN Real(b.sign, b.mant, -149)
  ELSE Real(b.sign, 8388608 + b.mant, b.exp - 150)
\* the 32-bit word whose upper and lower 16 bits are hi and lo
Word32(hi, lo) == Bits32(hi \div 32768, (hi \div 128) % 256, (hi % 128) * 65536 + lo)
ListedPatterns ==
  { <<0, Word32(0, 0)>>,             \* 0x0000 -> 0x00000000
    <<32768, Word32(32768, 0)>>,     \* 0x8000 -> 0x80000000
    <<31744, Word32(32640, 0)>>,     \* 0x7C00 -> 0x7F800000
    <<64512, Word32(65408, 0)>>,     \* 0xFC00 -> 0xFF800000
    <<32256, Word32(32704, 0)>>,     \* 0x7E00 -> 0x7FC00000
    <<1, Word32(13184, 0)>> }        \* 0x0001 -> 0x33800000
C26_Fp16Exact ==
  wres.op = "fp16_to_fp32" =>
    /\ wres.r.bits.sign \in 0..1 /\ wres.r.bits.exp \in 0..255
    /\ wres.r.bits.mant \in 0..8388607
    /\ FloatValue(wres.r.bits) = HalfValue(wres.h)
    /\ \A lp \in ListedPatterns : wres.h = lp[1] => wres.r.bits = lp[2]
    /\ (wres.h \div 1024) % 32 \in 1..30 =>
         /\ wres.r.bits.exp = ((wres.h \div 1024) % 32) + 112
         /\ wres.r.bits.mant = (wres.h % 1024) * 8192
    /\ wres.r.shifts <= 10

\* the smallest subnormal, 0x0001: ten shifts, 2^-24
C26_Witness ==
  /\ wres.op = "fp16_to_fp32" /\ wres.h = 1
  /\ wres.r.shifts = 10
  /\ wres.r.bits = Word32(13184, 0)

\* C27: for every scales array and every sub-block j < 8, get_scale_min_k4
\* yields the 6-bit scale and min of the format (j < 4: the low six bits of
\* scales[j] and scales[j+4]; else the low nibble of scales[j+4] over the top
\* two bits of scales[j-4], and the high nibble of scales[j+4] over the top two
\* bits of scales[j]) and reads only inside the 12 bytes; each group of 64
\* outputs is the 32 low nibbles and then the 32 high nibbles of the same 32
\* bytes of qs; and the block d = 1, dmin = 0, scales 1, qs 0x10 decodes to
\* 32 zeros then 32 ones, four times.
Field(byte, lo, width) == (byte \div 2^lo) % 2^width
FormatScale(j, q) ==
  IF j < 4 THEN Field(q[j], 0, 6)
  ELSE Field(q[j + 4], 0, 4) + 16 * Field(q[j - 4], 6, 2)
FormatMin(j, q) ==
  IF j < 4 THEN Field(q[j + 4], 0, 6)
  ELSE Field(q[j + 4], 4, 4) + 16 * Field(q[j], 6, 2)
\* the value of a float that holds a non-negative integer
IntOf(bits) ==
  LET fv == FloatValue(bits)
  IN IF fv.cls = "zero" THEN 0 ELSE fv.sig * 2^fv.ex
\* d * sc * nib - min * m, exact in float for these magnitudes
OutValue(o) == IntOf(o.d) * o.sc * o.nib - IntOf(o.min) * o.m
CraftedQ4K ==
  [d |-> 15360, dmin |-> 0, scales |-> Bytes(K_SCALE_SIZE, 1, 0),
   qs |-> Bytes(QK_K \div 2, 16, 0)]
C27_Q4KScalesAndNibbles ==
  /\ wres.op = "get_scale_min_k4" =>
       /\ wres.r.d = FormatScale(wres.j, wres.q) /\ wres.r.d \in 0..63
       /\ wres.r.m = FormatMin(wres.j, wres.q) /\ wres.r.m \in 0..63
       /\ wres.r.reads \subseteq 0..(K_SCALE_SIZE - 1)
  /\ wres.op = "decode_q4_k" =>
       /\ DOMAIN wres.y = 0..(QK_K * Len(wres.x) - 1)
       /\ \A b \in 1..Len(wres.x), g \in 0..3, l \in 0..31 :
            LET lo == wres.y[QK_K * (b - 1) + 64 * g + l]
                hi == wres.y[QK_K * (b - 1) + 64 * g + 32 + l]
                qb == wres.x[b].qs[32 * g + l]
            IN /\ lo.nib = Field(qb, 0, 4) /\ hi.nib = Field(qb, 4, 4)
               /\ lo.sc = FormatScale(2 * g, wres.x[b].scales)
               /\ lo.m = FormatMin(2 * g, wres.x[b].scales)
               /\ hi.sc = FormatScale(2 * g + 1, wres.x[b].scales)
               /\ hi.m = FormatMin(2 * g + 1, wres.x[b].scales)
               /\ wres.x[b] = CraftedQ4K => OutValue(lo) = 0 /\ OutValue(hi) = 1

\* the crafted block of the specification was decoded
C27_Witness ==
  /\ wres.op = "decode_q4_k" /\ wres.x = <<CraftedQ4K>>
  /\ OutValue(wres.y[31]) = 0 /\ OutValue(wres.y[32]) = 1
  /\ OutValue(wres.y[255]) = 1 /\ wres.y[255].is = 7

\* C28: decoding a Q6_K block reads only ql[0..128), qh[0..64) and
\* scales[0..16), stores to each of the 256 outputs exactly once, every
\* quant q1..q4 lies in -32..31 and is the 6-bit value (low nibble or high
\* nibble of ql under two bits of qh) minus 32, and output l + 32*k of a half
\* uses scale l/16 + 2*k of that half.
C28_Q6KIndicesAndRange ==
  wres.op = "decode_q6_k" =>
    /\ Len(wres.stores) = QK_K
    /\ \A n \in 1..QK_K :
         LET st == wres.stores[n]
         IN /\ st.ql \in 0..127 /\ st.qh \in 0..63 /\ st.sc \in 0..15
            /\ st.y \in 0..(QK_K - 1)
            /\ st.q \in (-32)..31
            /\ st.sc = 8 * (st.y \div 128) + ((st.y % 32) \div 16) + 2 * ((st.y % 128) \div 32)
            /\ st.scale = wres.x.scales[st.sc]
            /\ st.q + 32 = Field(wres.x.ql[st.ql], 4 * (((st.y % 128) \div 32) \div 2), 4)
                           + 16 * Field(wres.x.qh[st.qh], 2 * ((st.y % 128) \div 32), 2)
            /\ st.ql = 64 * (st.y \div 128) + (st.y % 32) + 32 * (((st.y % 128) \div 32) % 2)
            /\ st.qh = 32 * (st.y \div 128) + (st.y % 32)
    /\ \A i \in 0..(QK_K - 1) :
         Cardinality({ n \in 1..QK_K : wres.stores[n].y = i }) = 1

\* a block whose quants reach both -32 and 31 was decoded
C28_Witness ==
  /\ wres.op = "decode_q6_k"
  /\ \E n \in 1..QK_K : wres.stores[n].q = -32
  /\ \E n \in 1..QK_K : wres.stores[n].q = 31
  /\ wres.stores[QK_K].y = 255 /\ wres.stores[QK_K].sc = 15

\* C29 (as stated): every view maybe_get_tensor or get_tensor returns lies
\* inside the file, from data_section_offset on; a tensor without a
\* traits-based byte count gets the gap to the next higher tensor offset (to
\* the end of the file for the highest offset); the sum file_offset + nbytes
\* the bounds test forms never wraps.
Asked == tensor_index_by_name[wres.name] + 1
HigherOffsets(i) ==
  { tensors[j].offset : j \in { a \in 1..Len(tensors) : tensors[a].offset > tensors[i].offset } }
GapToHigher(i) ==
  (IF HigherOffsets(i) = {} THEN fsize
   ELSE data_section_offset + SetMin(HigherOffsets(i)))
  - (data_section_offset + tensors[i].offset)
SharesOffset(i) ==
  \E j \in 1..Len(tensors) : j # i /\ tensors[j].offset = tensors[i].offset
ViewInsideFile(tv, i) ==
  /\ tv.file_offset = data_section_offset + tensors[i].offset
  /\ tv.file_offset >= data_section_offset
  /\ tv.file_offset + tv.nbytes <= fsize
  /\ tensor_nbytes(tensors[i]).has => tv.nbytes = tensor_nbytes(tensors[i]).val
SumNeverWraps(i) ==
  data_section_offset + tensors[i].offset
    + value_or(tensor_nbytes(tensors[i]), tensor_size_from_offsets[i]) <= U64Max
C29_ViewsInsideFile ==
  wres.op = "get_tensor" =>
    IF wres.name \notin DOMAIN tensor_index_by_name
    THEN ~wres.maybe.found /\ ~wres.r.ok
    ELSE /\ wres.r = wres.maybe
         /\ SumNeverWraps(Asked)
         /\ wres.r.ok =>
              /\ ViewInsideFile(wres.r, Asked)
              /\ ~tensor_nbytes(tensors[Asked]).has => wres.r.nbytes = GapToHigher(Asked)

\* C29 (amended): the same, with the gap taken to the next tensor in
\* ascending offset order: of several tensors sharing one offset all but one
\* get 0 bytes, whichever std::sort puts last gets the gap to the next higher
\* offset.
C29_ViewsInsideFileSortOrder ==
  wres.op = "get_tensor" =>
    IF wres.name \notin DOMAIN tensor_index_by_name
    THEN ~wres.maybe.found /\ ~wres.r.ok
    ELSE /\ wres.r = wres.maybe
         /\ SumNeverWraps(Asked)
         /\ wres.r.ok =>
              /\ ViewInsideFile(wres.r, Asked)
              /\ ~tensor_nbytes(tensors[Asked]).has =>
                   \/ wres.r.nbytes = GapToHigher(Asked)
                   \/ SharesOffset(Asked) /\ wres.r.nbytes = 0
         /\ (Len(tensors) = 2 /\ SharesOffset(1)
             /\ ~tensor_nbytes(tensors[1]).has /\ ~tensor_nbytes(tensors[2]).has) =>
              \E i \in 1..2 : tensor_size_from_offsets[i] = GapToHigher(i)

\* a view of a tensor of unknown type was returned with the gap to the
\* tensor at the next higher offset as its size
C29_Witness ==
  /\ wres.op = "get_tensor" /\ wres.r.ok
  /\ Len(tensors) = 2
  /\ ~tensor_nbytes(tensors[Asked]).has
  /\ HigherOffsets(Asked) # {}
  /\ wres.r.nbytes = 32

\* C30: for a config that load_weights returned and the Layer0Context
\* constructor accepted, every index a step at pos < max_seq uses into q_, k_,
\* v_, attn_out_, attn_probs_ and the cache is below the buffer's length:
\* n_heads*head_dim <= d_model, n_kv_heads*head_dim <= kv_dim without 32-bit
\* wrap, pos + 1 <= max_seq and every kv_head < n_kv_heads.
Below(S, n) == \A a \in S : 0 <= a /\ a < n
C30_StepIndicesInBounds ==
  (wres.op = "context_step" /\ wres.made) =>
    /\ wres.cfg.n_heads * wres.cfg.head_dim <= wres.cfg.d_model
    /\ wres.cfg.n_kv_heads * wres.cfg.head_dim <= wres.cfg.kv_dim
    /\ wres.cfg.n_kv_heads * wres.cfg.head_dim <= U32Max
    /\ wres.pos < wres.max_seq =>
         /\ wres.stepped
         /\ wres.pos + 1 <= wres.len.attn_probs
         /\ wres.use.attn_probs = 0..wres.pos
         /\ wres.use.kv_head # {}
         /\ Below(wres.use.q, wres.len.q)
         /\ Below(wres.use.k, wres.len.k)
         /\ Below(wres.use.v, wres.len.v)
         /\ Below(wres.use.attn_out, wres.len.attn_out)
         /\ Below(wres.use.attn_probs, wres.len.attn_probs)
         /\ Below(wres.use.kv_head, wres.cfg.n_kv_heads)
         /\ Below(wres.use.cache, wres.len.cache)

\* a step at the last modelled position with two query heads on one kv head
C30_Witness ==
  /\ wres.op = "context_step" /\ wres.stepped
  /\ wres.pos = MaxPos
  /\ wres.cfg.n_heads = 2 /\ wres.cfg.n_kv_heads = 1
  /\ wres.use.kv_head = {0}
  /\ Cardinality(wres.use.cache) = (MaxPos + 1) * wres.cfg.head_dim

====
